---- MODULE Spec2Model ----
(***************************************************************************)
(* Model of the error-identity resolution engine of TF_repair_evaluator:   *)
(*   repair_pipeline/error_categorizer.py  (signatures, baseline, history, *)
(*                                          three-way categorization)      *)
(*   repair_pipeline/error_matcher.py      (resolution matcher)            *)
(*   repair_pipeline/validation_service.py (validate, persist)             *)
(*   terraform_validation/writer.py        (the persisted diagnostics CSV) *)
(*                                                                         *)
(* Python values are represented as follows.                               *)
(*   - str cells are TLA+ strings; the float NaN that pandas.read_csv      *)
(*     yields for an empty field is the reserved string NaN, and Python's  *)
(*     None is the reserved string None.  Fmt gives what an f-string       *)
(*     prints for a cell.                                                  *)
(*   - line cells are records [k, n]: k = "int" (a Python int n),          *)
(*     "float" (n.0, an int column promoted by a missing value), "none"    *)
(*     (None, a diagnostic without a range), "nan" (an empty CSV field).   *)
(***************************************************************************)
EXTENDS Integers, Sequences, FiniteSets, TLC

VARIABLES
    sg_fields,   \* signature study: the logical fields of one diagnostic
    sg_env,      \* signature study: how catalogue and store were loaded
    sg_sigs,     \* signature study: the signatures built so far, by builder
    mt_problem,  \* matcher: the catalogue row of the targeted problem
    mt_errors,   \* matcher: extracted_rows, the post-repair diagnostics
    mt_fix,      \* matcher: (fixed content, start_line, end_line) of the fix
    mt_verdict,  \* matcher: the verdicts computed so far
    problems,                   \* ErrorCategorizer.problems: the catalogue, or <<None>>
    output_csv,                 \* the rows of the persisted diagnostics CSV
    baseline_errors_cache,      \* ErrorCategorizer.baseline_errors_cache
    experiment_errors_cache,    \* ErrorCategorizer.experiment_errors_cache
    attempts,                   \* the repair attempts processed so far, in order
    extracted_rows,             \* the current attempt's diagnostics
    existing_experiment_errors, \* the history map of the latest categorization
    pc,                         \* where the current attempt stands
    store_fault,  \* history study: pd.read_csv raises on the persisted store
    hs_query,     \* history study: the arguments of the latest lookup
    fs,           \* the file system: path -> content of the files that exist
    fx_call,      \* fix applier: the arguments of apply_fix and its environment
    fx_handle,    \* fix applier: the backup path apply_fix returned
    fx_pc,        \* fix applier: idle, applied, restored or raised
    llm_fixes,    \* driver: the rows of the input fixes table, in order
    outcomes_csv, \* driver: the rows appended to the outcomes store
    rd_events,    \* driver: the calls made on the target file, in order
    rd_row,       \* driver: the index of the fixes row being processed
    rd_pc,        \* driver: where evaluate_repairs stands
    mc_errors,    \* metrics: the annotated diagnostics of one attempt
    mc_counts,    \* metrics: the dict calculate_error_metrics returned
    mc_outcome,   \* metrics: the row create_outcome_row built
    wr_file,      \* writer: the store file, its existence and its lines
    wr_call       \* writer: the arguments of the latest write_rows call

sg_vars == <<sg_fields, sg_env, sg_sigs>>
mt_vars == <<mt_problem, mt_errors, mt_fix, mt_verdict>>
ec_vars == <<problems, output_csv, baseline_errors_cache, experiment_errors_cache,
             attempts, extracted_rows, existing_experiment_errors, pc>>
hs_vars == <<store_fault, hs_query>>
fx_vars == <<fs, fx_call, fx_handle, fx_pc>>
rd_vars == <<llm_fixes, outcomes_csv, rd_events, rd_row, rd_pc>>
mc_vars == <<mc_errors, mc_counts, mc_outcome>>
wr_vars == <<wr_file, wr_call>>
vars == <<sg_vars, mt_vars, ec_vars, hs_vars, fx_vars, rd_vars, mc_vars, wr_vars>>

-----------------------------------------------------------------------------
(* Python / pandas values *)

NaN == "<NaN>"
None == "<None>"

\* bool(x) of a str-or-NaN cell: only the empty string (and None) is falsy.
Truthy(v) == v # "" /\ v # None

\* pd.notna(x)
NotNa(v) == v # NaN /\ v # None

\* what f"{x}" prints for a str-or-NaN-or-None cell
Fmt(v) == IF v = NaN THEN "nan" ELSE IF v = None THEN "None" ELSE v

IntCell(n) == [k |-> "int", n |-> n]
FloatCell(n) == [k |-> "float", n |-> n]
NoneCell == [k |-> "none", n |-> 0]
NanCell == [k |-> "nan", n |-> 0]

\* what f"{x}" prints for a line cell
FmtLine(c) ==
    CASE c.k = "int" -> ToString(c.n)
      [] c.k = "float" -> ToString(c.n) \o ".0"
      [] c.k = "none" -> "None"
      [] OTHER -> "nan"

\* str.strip() for the blank character
RECURSIVE LStrip(_)
LStrip(s) == IF Len(s) > 0 /\ SubSeq(s, 1, 1) = " " THEN LStrip(SubSeq(s, 2, Len(s))) ELSE s

RECURSIVE RStrip(_)
RStrip(s) ==
    IF Len(s) > 0 /\ SubSeq(s, Len(s), Len(s)) = " " THEN RStrip(SubSeq(s, 1, Len(s) - 1)) ELSE s

Strip(s) == LStrip(RStrip(s))

-----------------------------------------------------------------------------
(* The persisted diagnostics CSV: DataFrame.to_csv followed by pd.read_csv *)

\* an empty field (written for "", None or NaN) is read back as NaN
ReadStr(v) == IF v = "" \/ v = None \/ v = NaN THEN NaN ELSE v

\* a column of ints is read as int64 unless some field of it is empty: then
\* the whole column is float64
ReadLine(c, promoted) ==
    IF c.k \in {"none", "nan"} THEN NanCell
    ELSE IF promoted THEN FloatCell(c.n) ELSE IntCell(c.n)

HasNaLine(rows) == \E i \in 1..Len(rows) : rows[i].line_start.k \in {"none", "nan"}

read_csv(rows) ==
    [i \in 1..Len(rows) |->
        [filename |-> ReadStr(rows[i].filename),
         block_identifiers |-> ReadStr(rows[i].block_identifiers),
         line_start |-> ReadLine(rows[i].line_start, HasNaLine(rows)),
         summary |-> ReadStr(rows[i].summary),
         detail |-> ReadStr(rows[i].detail),
         iteration_id |-> ReadStr(rows[i].iteration_id),
         original_problem_oid |-> ReadStr(rows[i].original_problem_oid)]]

\* DiagnosticsWriter.write_rows: each row enriched with the attempt's ids
enriched_row(r, iteration_id, original_problem_oid) ==
    [filename |-> r.filename,
     block_identifiers |-> r.block_identifiers,
     line_start |-> r.line_start,
     summary |-> r.summary,
     detail |-> r.detail,
     iteration_id |-> iteration_id,
     original_problem_oid |-> original_problem_oid]

RECURSIVE enriched_rows(_, _, _)
enriched_rows(rows, iteration_id, original_problem_oid) ==
    IF rows = <<>> THEN <<>>
    ELSE <<enriched_row(Head(rows), iteration_id, original_problem_oid)>>
         \o enriched_rows(Tail(rows), iteration_id, original_problem_oid)

-----------------------------------------------------------------------------
(* Signatures: the three builders of error_categorizer.py *)

\* a signature that keeps the start line next to the block identifier
SigLiveWithLine(error) ==
    Fmt(error.filename) \o "|" \o Fmt(error.block_identifiers) \o "|line_"
    \o FmtLine(error.line_start) \o "|" \o Fmt(error.summary) \o "|" \o Fmt(error.detail)

\* categorize_errors, lines 59-68: a live diagnostic
SigLive(error) ==
    IF Truthy(error.block_identifiers)
    THEN Fmt(error.filename) \o "|" \o Fmt(error.block_identifiers) \o "|"
         \o Fmt(error.summary) \o "|" \o Fmt(error.detail)
    ELSE Fmt(error.filename) \o "|line_" \o FmtLine(error.line_start) \o "|"
         \o Fmt(error.summary) \o "|" \o Fmt(error.detail)

\* get_existing_experiment_errors, lines 210-219: a record read from the CSV
SigHistory(error) ==
    IF Truthy(error.block_identifiers) /\ NotNa(error.block_identifiers)
    THEN Fmt(error.filename) \o "|" \o Fmt(error.block_identifiers) \o "|"
         \o Fmt(error.summary) \o "|" \o Fmt(error.detail)
    ELSE Fmt(error.filename) \o "|line_" \o FmtLine(error.line_start) \o "|"
         \o Fmt(error.summary) \o "|" \o Fmt(error.detail)

\* get_baseline_errors, lines 133-143: the catalogue's two block fields
BaselineBlockId(problem) ==
    IF Truthy(problem.block_type) /\ Truthy(problem.impacted_block_type)
    THEN Fmt(problem.block_type) \o " " \o Fmt(problem.impacted_block_type)
    ELSE IF Truthy(problem.impacted_block_type) THEN problem.impacted_block_type
    ELSE ""

\* get_baseline_errors, lines 145-153: a row of the problem catalogue
SigBaseline(problem) ==
    IF Truthy(BaselineBlockId(problem))
    THEN Fmt(problem.filename) \o "|" \o Fmt(BaselineBlockId(problem)) \o "|"
         \o Fmt(problem.summary) \o "|" \o Fmt(problem.detail)
    ELSE Fmt(problem.filename) \o "|line_" \o FmtLine(problem.line_start) \o "|"
         \o Fmt(problem.summary) \o "|" \o Fmt(problem.detail)

-----------------------------------------------------------------------------
(* Where the three kinds of row come from *)

\* DiagnosticsExtractor.extract_rows: the row of a diagnostic located in a
\* file; the block locator gave (btype, ident), both "" when it found nothing
extract_row(f) ==
    [filename |-> f.file,
     block_identifiers |-> Strip(f.btype \o " " \o f.ident),
     line_start |-> IntCell(f.line),
     summary |-> f.summary,
     detail |-> f.detail]

\* a row of the problem catalogue with the same logical fields; the catalogue
\* is a DataFrame read by pd.read_csv (empty fields are NaN) or built in
\* memory (empty fields are "")
catalogue_row(f, viaCsv) ==
    [filename |-> f.file,
     block_type |-> IF viaCsv THEN ReadStr(f.btype) ELSE f.btype,
     impacted_block_type |-> IF viaCsv THEN ReadStr(f.ident) ELSE f.ident,
     line_start |-> IntCell(f.line),
     summary |-> IF viaCsv THEN ReadStr(f.summary) ELSE f.summary,
     detail |-> IF viaCsv THEN ReadStr(f.detail) ELSE f.detail]

-----------------------------------------------------------------------------
(* Bounds and input sets *)

MaxLine == 3

Files == {"c/p/main.tf", "c/p/vars.tf"}
BlockTypes == {"", "resource"}
BlockNames == {"", "aws_a x"}
Summaries == {"S", "T"}
Details == {"", "D"}

LogicalFields ==
    [file : Files, btype : BlockTypes, ident : BlockNames,
     line : 1..MaxLine, summary : Summaries, detail : Details]

\* the locator resolves a block (type and name) or nothing
Resolvable(f) == (f.ident = "") => (f.btype = "")

-----------------------------------------------------------------------------
(* Signature study: one diagnostic's fields, signed by each builder *)

\* the parts of the state a study does not use
MtIdle ==
    /\ mt_problem = [oid |-> ""]
    /\ mt_errors = <<>>
    /\ mt_fix = [fixed_content |-> "", start_line |-> NoneCell, end_line |-> NoneCell]
    /\ mt_verdict = [v \in {} |-> TRUE]

SgIdle ==
    /\ sg_fields = [file |-> ""]
    /\ sg_env = [catalogueViaCsv |-> FALSE, storeHasRangelessRow |-> FALSE]
    /\ sg_sigs = [b \in {} |-> ""]

EcIdle ==
    /\ problems = [is_none |-> TRUE, rows |-> <<>>]
    /\ output_csv = <<>>
    /\ baseline_errors_cache = [f \in {} |-> {}]
    /\ experiment_errors_cache = [key \in {} |-> <<>>]
    /\ attempts = <<>>
    /\ extracted_rows = <<>>
    /\ existing_experiment_errors = [served_from_cache |-> FALSE, errors |-> <<>>]
    /\ pc = "idle"

HsIdle ==
    /\ store_fault = FALSE
    /\ hs_query = <<>>

FxIdle ==
    /\ fs = [path \in {} |-> ""]
    /\ fx_call = <<>>
    /\ fx_handle = None
    /\ fx_pc = "idle"

RdIdle ==
    /\ llm_fixes = <<>>
    /\ outcomes_csv = <<>>
    /\ rd_events = <<>>
    /\ rd_row = 0
    /\ rd_pc = "idle"

McIdle ==
    /\ mc_errors = <<>>
    /\ mc_counts = [k \in {} |-> 0]
    /\ mc_outcome = [k \in {} |-> 0]

WrIdle ==
    /\ wr_file = [exists |-> FALSE, lines |-> <<>>]
    /\ wr_call = <<>>

SigInit ==
    /\ sg_fields \in {f \in LogicalFields : Resolvable(f)}
    /\ sg_env \in [catalogueViaCsv : BOOLEAN, storeHasRangelessRow : BOOLEAN]
    /\ sg_sigs = [b \in {} |-> ""]
    /\ MtIdle
    /\ EcIdle
    /\ HsIdle
    /\ FxIdle
    /\ RdIdle
    /\ McIdle
    /\ WrIdle

\* a diagnostic without a range, as extract_rows builds it (Case 2)
RangelessRow ==
    [filename |-> "", block_identifiers |-> "", line_start |-> NoneCell,
     summary |-> "S", detail |-> "D"]

\* the CSV that holds the diagnostic, after write_rows
SigStore ==
    enriched_rows(<<extract_row(sg_fields)>> \o
                  (IF sg_env.storeHasRangelessRow THEN <<RangelessRow>> ELSE <<>>),
                  "it1", "oidA")

Put(m, key, v) == [x \in DOMAIN m \cup {key} |-> IF x = key THEN v ELSE m[x]]

BuildLive ==
    /\ "live" \notin DOMAIN sg_sigs
    /\ sg_sigs' = Put(sg_sigs, "live", SigLive(extract_row(sg_fields)))
    /\ UNCHANGED <<wr_vars, sg_fields, sg_env, mt_vars, ec_vars, hs_vars, fx_vars, rd_vars, mc_vars>>

BuildHistory ==
    /\ "history" \notin DOMAIN sg_sigs
    /\ sg_sigs' = Put(sg_sigs, "history", SigHistory(read_csv(SigStore)[1]))
    /\ UNCHANGED <<wr_vars, sg_fields, sg_env, mt_vars, ec_vars, hs_vars, fx_vars, rd_vars, mc_vars>>

BuildBaseline ==
    /\ "baseline" \notin DOMAIN sg_sigs
    /\ sg_sigs' = Put(sg_sigs, "baseline",
                      SigBaseline(catalogue_row(sg_fields, sg_env.catalogueViaCsv)))
    /\ UNCHANGED <<wr_vars, sg_fields, sg_env, mt_vars, ec_vars, hs_vars, fx_vars, rd_vars, mc_vars>>

\* the same diagnostic after an edit that moved it to another line
BuildShifted ==
    /\ "live" \in DOMAIN sg_sigs
    /\ "shifted" \notin DOMAIN sg_sigs
    /\ \E l \in (1..MaxLine) \ {sg_fields.line} :
          sg_sigs' = Put(sg_sigs, "shifted",
                         SigLive(extract_row([sg_fields EXCEPT !.line = l])))
    /\ UNCHANGED <<wr_vars, sg_fields, sg_env, mt_vars, ec_vars, hs_vars, fx_vars, rd_vars, mc_vars>>

SigNext == BuildLive \/ BuildHistory \/ BuildBaseline \/ BuildShifted

SpecSig == SigInit /\ [][SigNext]_vars

-----------------------------------------------------------------------------
(* Claims about signatures *)

SigBuilt(b) == b \in DOMAIN sg_sigs

\* C5 as stated: the signature of every diagnostic is unchanged when only
\* its start line changes (block identifier unchanged).
C5_LineNeverMatters ==
    (SigBuilt("live") /\ SigBuilt("shifted")) => sg_sigs["shifted"] = sg_sigs["live"]

\* C5 amended: the signature of a diagnostic that carries a non-empty block
\* identifier is unchanged when only its start line changes; the signature
\* of a diagnostic without a block identifier contains the start line and
\* changes with it.
C5_LineIgnoredWithIdentifier ==
    (SigBuilt("live") /\ SigBuilt("shifted")) =>
        IF extract_row(sg_fields).block_identifiers # ""
        THEN sg_sigs["shifted"] = sg_sigs["live"]
        ELSE sg_sigs["shifted"] # sg_sigs["live"]

C5_Witness ==
    /\ SigBuilt("live") /\ SigBuilt("shifted")
    /\ extract_row(sg_fields).block_identifiers # ""
    /\ sg_sigs["shifted"] = sg_sigs["live"]

\* C6: for the same logical fields the baseline builder (catalogue row), the
\* history builder (record read back from the CSV) and the categorizer (live
\* diagnostic) build the same signature string, with a block identity and
\* without one.
C6_OneSignatureScheme ==
    (SigBuilt("live") /\ SigBuilt("history") /\ SigBuilt("baseline")) =>
        /\ sg_sigs["history"] = sg_sigs["live"]
        /\ sg_sigs["baseline"] = sg_sigs["live"]

-----------------------------------------------------------------------------
(* Resolution matcher: error_matcher.py *)

line_tolerance == 3
buffer == 2

Abs(x) == IF x < 0 THEN -x ELSE x

\* int(x) succeeds on a number; it raises on None (TypeError) and NaN (ValueError)
IntOk(c) == c.k \in {"int", "float"}

\* == on str-or-NaN cells: NaN equals nothing
PyEq(a, b) == a = b /\ a # NaN

\* len(s.splitlines())
RECURSIVE CountNewlines(_)
CountNewlines(s) ==
    IF Len(s) = 0 THEN 0
    ELSE (IF SubSeq(s, 1, 1) = "\n" THEN 1 ELSE 0) + CountNewlines(SubSeq(s, 2, Len(s)))

splitlines_len(s) ==
    IF Len(s) = 0 THEN 0
    ELSE CountNewlines(s) + (IF SubSeq(s, Len(s), Len(s)) = "\n" THEN 0 ELSE 1)

\* a tolerance that excludes its boundary
position_matches_strict(error_line, original_line) ==
    IF error_line = -1 \/ original_line = -1 THEN FALSE
    ELSE Abs(error_line - original_line) < line_tolerance

\* _position_matches on two ints
position_matches(error_line, original_line) ==
    IF error_line = -1 \/ original_line = -1 THEN FALSE
    ELSE Abs(error_line - original_line) <= line_tolerance

\* a renamed-block check on the bare block span, without the tolerance
is_renamed_block_match_bare(error, original_error_info) ==
    /\ Strip(Fmt(error.block_identifiers)) # ""
    /\ Strip(Fmt(original_error_info.block_identifiers)) # ""
    /\ Strip(Fmt(error.block_identifiers)) # Strip(Fmt(original_error_info.block_identifiers))
    /\ IntOk(error.line_start)
    /\ IntOk(original_error_info.impacted_block_start_line)
    /\ IntOk(original_error_info.impacted_block_end_line)
    /\ original_error_info.impacted_block_start_line.n <= error.line_start.n
    /\ error.line_start.n <= original_error_info.impacted_block_end_line.n
    /\ PyEq(error.summary, original_error_info.summary)

\* _is_renamed_block_match
is_renamed_block_match(error, original_error_info) ==
    LET current_identifiers == Strip(Fmt(error.block_identifiers))
        original_identifiers == Strip(Fmt(original_error_info.block_identifiers))
    IN  IF ~(current_identifiers # "" /\ original_identifiers # "") THEN FALSE
        ELSE IF current_identifiers = original_identifiers THEN FALSE
        ELSE IF ~(IntOk(error.line_start)
                  /\ IntOk(original_error_info.impacted_block_start_line)
                  /\ IntOk(original_error_info.impacted_block_end_line)) THEN FALSE
        ELSE LET error_line == error.line_start.n
                 original_block_start == original_error_info.impacted_block_start_line.n
                 original_block_end == original_error_info.impacted_block_end_line.n
             IN  IF error_line = -1 \/ original_block_start = -1 THEN FALSE
                 ELSE IF /\ original_block_start - line_tolerance <= error_line
                         /\ error_line <= original_block_end + line_tolerance
                      THEN PyEq(error.summary, original_error_info.summary)
                      ELSE FALSE

\* an identifier match that does not compare the summaries
matches_by_identifier_any_summary(error, original_error_info) ==
    /\ Strip(Fmt(error.block_identifiers)) # ""
    /\ Strip(Fmt(error.block_identifiers)) = Strip(Fmt(original_error_info.block_identifiers))
    /\ position_matches(error.line_start.n, original_error_info.line_start)

\* _matches_by_identifier; a diagnostic that carries an identifier has an int
\* line (extract_rows resolves a block only for a located diagnostic)
matches_by_identifier(error, original_error_info) ==
    LET current_identifiers == Strip(Fmt(error.block_identifiers))
        original_identifiers == Strip(Fmt(original_error_info.block_identifiers))
    IN  IF ~(original_identifiers # "" /\ current_identifiers # "") THEN FALSE
        ELSE IF original_identifiers # current_identifiers
             THEN is_renamed_block_match(error, original_error_info)
        ELSE IF ~PyEq(error.summary, original_error_info.summary) THEN FALSE
        ELSE position_matches(error.line_start.n, original_error_info.line_start)

\* _matches_by_position; None - 2 raises the TypeError the except clause
\* swallows, so a fix without start_line never matches
matches_by_position(error, original_error_info, fix_context) ==
    LET current_identifiers == Strip(Fmt(error.block_identifiers))
    IN  IF current_identifiers # "" THEN FALSE
        ELSE IF ~IntOk(error.line_start) THEN FALSE
        ELSE IF error.line_start.n = -1 THEN FALSE
        ELSE IF ~IntOk(fix_context.start_line) THEN FALSE
        ELSE LET error_line == error.line_start.n
                 new_lines_count ==
                     IF fix_context.fixed_file_content # ""
                     THEN splitlines_len(fix_context.fixed_file_content) ELSE 0
                 check_start == fix_context.start_line.n - buffer
                 check_end == fix_context.start_line.n + new_lines_count + buffer
             IN  IF check_start <= error_line /\ error_line <= check_end
                 THEN PyEq(error.summary, original_error_info.summary)
                 ELSE FALSE

\* Python's True / False where a result may also be None
PyBool(b) == IF b THEN "True" ELSE "False"

\* check_line_is_clean, lines 35-44: the loop; int(None) raises the TypeError
\* that skips the diagnostic
RECURSIVE line_is_clean_loop(_, _)
line_is_clean_loop(original_line_no, extracted_errors) ==
    IF extracted_errors = <<>> THEN TRUE
    ELSE LET error == Head(extracted_errors)
         IN  IF /\ IntOk(error.line_start)
                /\ error.line_start.n # -1
                /\ Abs(error.line_start.n - original_line_no) <= line_tolerance
             THEN FALSE
             ELSE line_is_clean_loop(original_line_no, Tail(extracted_errors))

\* a line check without the sentinel test
check_line_is_clean_no_sentinel(original_line_no, extracted_errors) ==
    PyBool(line_is_clean_loop(original_line_no, extracted_errors))

\* a line check that looks only at the diagnostics of c/p/main.tf
RECURSIVE line_is_clean_loop_same_file(_, _)
line_is_clean_loop_same_file(original_line_no, extracted_errors) ==
    IF extracted_errors = <<>> THEN TRUE
    ELSE LET error == Head(extracted_errors)
         IN  IF /\ error.filename = "c/p/main.tf"
                /\ IntOk(error.line_start)
                /\ error.line_start.n # -1
                /\ Abs(error.line_start.n - original_line_no) <= line_tolerance
             THEN FALSE
             ELSE line_is_clean_loop_same_file(original_line_no, Tail(extracted_errors))

check_line_is_clean_same_file(original_line_no, extracted_errors) ==
    IF original_line_no = -1 THEN None
    ELSE PyBool(line_is_clean_loop_same_file(original_line_no, extracted_errors))

\* check_line_is_clean
check_line_is_clean(original_line_no, extracted_errors) ==
    IF original_line_no = -1 THEN None
    ELSE PyBool(line_is_clean_loop(original_line_no, extracted_errors))

\* a loop that decides on the first diagnostic alone
check_specific_error_fixed_first_only(original_error_info, extracted_errors, fix_context) ==
    IF extracted_errors = <<>> THEN TRUE
    ELSE /\ ~matches_by_identifier(Head(extracted_errors), original_error_info)
         /\ ~matches_by_position(Head(extracted_errors), original_error_info, fix_context)

\* check_specific_error_fixed: the loop over extracted_errors
RECURSIVE check_specific_error_fixed(_, _, _)
check_specific_error_fixed(original_error_info, extracted_errors, fix_context) ==
    IF extracted_errors = <<>> THEN TRUE
    ELSE IF matches_by_identifier(Head(extracted_errors), original_error_info) THEN FALSE
    ELSE IF matches_by_position(Head(extracted_errors), original_error_info, fix_context)
         THEN FALSE
    ELSE check_specific_error_fixed(original_error_info, Tail(extracted_errors), fix_context)

\* MetricsCalculator.evaluate_resolution_metrics, lines 83-94
original_line(p) == IF IntOk(p.line_start) THEN p.line_start.n ELSE -1

original_error_info(p) ==
    [summary |-> p.summary,
     block_identifiers |-> Strip(Fmt(p.block_identifiers)),
     line_start |-> original_line(p),
     impacted_block_start_line |-> p.impacted_block_start_line,
     impacted_block_end_line |-> p.impacted_block_end_line]

\* MetricsCalculator.evaluate_resolution_metrics, lines 96-100
fix_context(fix) ==
    [start_line |-> fix.start_line, end_line |-> fix.end_line,
     fixed_file_content |-> fix.fixed_content]

-----------------------------------------------------------------------------
(* Matcher study: one targeted problem, one validation result, one fix *)

MaxPos == 5
MaxErrors == 2

\* the diagnostics a validation can yield: located ones, with or without a
\* resolved block, and one without a range
MtDiagnostics ==
    {extract_row(f) : f \in {g \in [file : {"c/p/main.tf"}, btype : BlockTypes,
                                    ident : {"", "aws_a x", "aws_b y"}, line : 1..MaxPos,
                                    summary : Summaries, detail : {"D"}] :
                               (g.ident = "") <=> (g.btype = "")}}
    \cup {RangelessRow}

RECURSIVE SeqsUpTo(_, _)
SeqsUpTo(S, n) ==
    IF n = 0 THEN {<<>>}
    ELSE SeqsUpTo(S, n - 1) \cup {Append(q, x) : q \in {r \in SeqsUpTo(S, n - 1) : Len(r) = n - 1}, x \in S}

\* rows of the problem catalogue (a DataFrame read by pd.read_csv)
MtProblems ==
    {[oid |-> "oidA", summary |-> "S", block_identifiers |-> b, line_start |-> l,
      impacted_block_start_line |-> sp[1], impacted_block_end_line |-> sp[2]] :
        b \in {NaN, "resource aws_a x "},
        l \in {NanCell, IntCell(1)},
        sp \in {<<NanCell, NanCell>>, <<IntCell(1), IntCell(2)>>}}

\* FileCoordinateResolver.get_fix_content_and_coordinates: a whole-file fix
\* has no coordinates, a block fix has the block's
MtFixes ==
    {[fixed_content |-> c, start_line |-> sp[1], end_line |-> sp[2]] :
        c \in {"x", "x\ny\n"},
        sp \in {<<NoneCell, NoneCell>>, <<IntCell(1), IntCell(2)>>}}

MatchInit ==
    /\ SgIdle
    /\ EcIdle
    /\ HsIdle
    /\ FxIdle
    /\ RdIdle
    /\ McIdle
    /\ WrIdle
    /\ mt_problem \in MtProblems
    /\ mt_errors \in SeqsUpTo(MtDiagnostics, MaxErrors)
    /\ mt_fix \in MtFixes
    /\ mt_verdict = [v \in {} |-> TRUE]

\* evaluate_resolution_metrics, lines 83-118, for a fix whose oid is in the
\* catalogue: both verdicts of the ErrorMatchingService
EvaluateSpecific ==
    /\ "specific_error_fixed" \notin DOMAIN mt_verdict
    /\ mt_verdict' =
          Put(Put(mt_verdict, "line_is_clean",
                  check_line_is_clean(original_line(mt_problem), mt_errors)),
              "specific_error_fixed",
              check_specific_error_fixed(original_error_info(mt_problem),
                                         mt_errors, fix_context(mt_fix)))
    /\ UNCHANGED <<wr_vars, sg_vars, ec_vars, hs_vars, fx_vars, rd_vars, mc_vars, mt_problem, mt_errors, mt_fix>>

MatchNext == EvaluateSpecific

SpecMatch == MatchInit /\ [][MatchNext]_vars

-----------------------------------------------------------------------------
(* Claims about the resolution matcher *)

MtDone == "specific_error_fixed" \in DOMAIN mt_verdict
MtFixed == mt_verdict["specific_error_fixed"]
MtOriginal == original_error_info(mt_problem)
MtErrorSet == {mt_errors[i] : i \in 1..Len(mt_errors)}

\* the diagnostic sits on the block the targeted problem names, with the
\* same summary, within the tolerance of the (known) original line
SameBlockNearby(e) ==
    /\ e.block_identifiers # "" /\ MtOriginal.block_identifiers # ""
    /\ e.block_identifiers = MtOriginal.block_identifiers
    /\ e.summary = MtOriginal.summary
    /\ MtOriginal.line_start # -1
    /\ e.line_start.n - MtOriginal.line_start <= line_tolerance
    /\ MtOriginal.line_start - e.line_start.n <= line_tolerance

\* C7: if some post-repair diagnostic has the original problem's non-empty
\* block identifier, the same summary and a start line within the tolerance
\* of the original line, check_specific_error_fixed returns False.
C7_IdentifierMatchPersists ==
    (MtDone /\ \E e \in MtErrorSet : SameBlockNearby(e)) => (MtFixed = FALSE)

C7_Witness ==
    /\ MtDone /\ MtFixed = FALSE /\ Len(mt_errors) = 1
    /\ SameBlockNearby(mt_errors[1])
    /\ mt_errors[1].line_start.n = MtOriginal.line_start + line_tolerance

\* the diagnostic sits on another, named block, inside the original block's
\* span widened by the tolerance, with the same summary
RenamedBlockInSpan(e) ==
    /\ e.block_identifiers # "" /\ MtOriginal.block_identifiers # ""
    /\ e.block_identifiers # MtOriginal.block_identifiers
    /\ mt_problem.impacted_block_start_line.k = "int"
    /\ mt_problem.impacted_block_end_line.k = "int"
    /\ mt_problem.impacted_block_start_line.n - line_tolerance <= e.line_start.n
    /\ e.line_start.n <= mt_problem.impacted_block_end_line.n + line_tolerance
    /\ e.summary = MtOriginal.summary

\* C8: if some post-repair diagnostic has a non-empty block identifier that
\* differs from the original problem's non-empty identifier, a start line
\* within the original impacted-block span widened by the tolerance, and the
\* original summary, check_specific_error_fixed returns False.
C8_RenamedBlockPersists ==
    (MtDone /\ \E e \in MtErrorSet : RenamedBlockInSpan(e)) => (MtFixed = FALSE)

C8_Witness ==
    /\ MtDone /\ MtFixed = FALSE /\ Len(mt_errors) = 1
    /\ mt_problem.block_identifiers # NaN
    /\ RenamedBlockInSpan(mt_errors[1])
    /\ mt_errors[1].line_start.n = mt_problem.impacted_block_end_line.n + line_tolerance

\* C9: if no post-repair diagnostic has the original problem's summary,
\* check_specific_error_fixed returns True, whatever the identifiers and
\* lines of the diagnostics are.
C9_SummaryNecessary ==
    (MtDone /\ \A e \in MtErrorSet : e.summary # MtOriginal.summary) => (MtFixed = TRUE)

C9_Witness ==
    /\ MtDone /\ MtFixed = TRUE
    /\ \E e \in MtErrorSet :
          /\ e.summary # MtOriginal.summary
          /\ e.block_identifiers = MtOriginal.block_identifiers
          /\ e.line_start.n = MtOriginal.line_start
    /\ \A e \in MtErrorSet : e.summary # MtOriginal.summary

\* the lines the fix covers in the repaired file: a whole-file replacement
\* covers the file from line 1, a line-range replacement starts at start_line
FixFirstLine == IF mt_fix.start_line.k = "int" THEN mt_fix.start_line.n ELSE 1
FixLastLine == FixFirstLine + splitlines_len(mt_fix.fixed_content) - 1

InFixSpan(e) ==
    /\ e.line_start.k = "int"
    /\ FixFirstLine - buffer <= e.line_start.n
    /\ e.line_start.n <= FixLastLine + buffer

\* C10: for every post-repair diagnostic without a block identifier and for
\* every fix context (line-range or whole-file replacement): if its start
\* line lies within the span covered by the fix plus the buffer and its
\* summary is the original summary, check_specific_error_fixed returns False.
C10_PositionFallbackPersists ==
    (MtDone /\ \E e \in MtErrorSet :
                  /\ e.block_identifiers = ""
                  /\ InFixSpan(e)
                  /\ e.summary = MtOriginal.summary)
        => (MtFixed = FALSE)

\* the position-fallback strategy as the code applies it: a located diagnostic
\* without identifier, a fix with a start line, the diagnostic within
\* [start - buffer, start + number of new lines + buffer], the same summary
PositionFallbackMatch(e) ==
    /\ e.block_identifiers = ""
    /\ e.line_start.k = "int"
    /\ mt_fix.start_line.k = "int"
    /\ mt_fix.start_line.n - buffer <= e.line_start.n
    /\ e.line_start.n <= mt_fix.start_line.n + splitlines_len(mt_fix.fixed_content) + buffer
    /\ e.summary = MtOriginal.summary

MatchesAnyStrategy(e) ==
    SameBlockNearby(e) \/ RenamedBlockInSpan(e) \/ PositionFallbackMatch(e)

\* the sequence with its first two elements exchanged, and the sequence
\* rotated by one: applied again and again the two give every ordering
Reordered(seq) ==
    IF Len(seq) < 2 THEN {seq}
    ELSE {<<seq[2], seq[1]>> \o SubSeq(seq, 3, Len(seq)), Tail(seq) \o <<Head(seq)>>}

MtLineIsClean == mt_verdict["line_is_clean"]

\* a diagnostic with a resolvable start line within the tolerance of line
NearLine(e, line) ==
    /\ e.line_start.k = "int"
    /\ e.line_start.n # -1
    /\ e.line_start.n - line <= line_tolerance
    /\ line - e.line_start.n <= line_tolerance

\* C12: check_line_is_clean returns None when the original line is the
\* sentinel -1; for any other original line it returns True exactly when no
\* diagnostic has a resolvable start line within the tolerance (boundary
\* included) of the original line, so True for no diagnostics, and
\* diagnostics with an unparsable line are ignored.
C12_LineIsClean ==
    MtDone =>
        IF original_line(mt_problem) = -1
        THEN MtLineIsClean = None
        ELSE /\ MtLineIsClean \in {"True", "False"}
             /\ (MtLineIsClean = "True") <=>
                    ~(\E e \in MtErrorSet : NearLine(e, original_line(mt_problem)))

\* a diagnostic without a range and one just outside the tolerance: clean
C12_Witness ==
    /\ MtDone /\ MtLineIsClean = "True" /\ Len(mt_errors) = 2
    /\ mt_errors[1].line_start.k = "none"
    /\ mt_errors[2].line_start.n = original_line(mt_problem) + line_tolerance + 1

\* the sentinel: diagnostics near line -1 + tolerance, and the verdict is None
C12_WitnessSentinel ==
    /\ MtDone /\ MtLineIsClean = None
    /\ \E e \in MtErrorSet : e.line_start.k = "int" /\ e.line_start.n <= 2

\* the catalogue row of the targeted problem has no block identifier, and every
\* diagnostic of the validation has one
EmptyIdentifierAgainstIdentified ==
    /\ MtDone
    /\ mt_problem.block_identifiers = NaN
    /\ mt_errors # <<>>
    /\ \A e \in MtErrorSet : Strip(Fmt(e.block_identifiers)) # ""

\* C30: when the targeted problem carries an empty block identifier and every
\* post-repair diagnostic carries a non-empty one, no strategy matches and
\* check_specific_error_fixed returns True, even with a diagnostic of the
\* original summary at the original line.
C30_EmptyIdentifierNeverMatches ==
    EmptyIdentifierAgainstIdentified => MtFixed

\* the part the code keeps: no match when the catalogue row has no block span
\* either
C30_NoMatchWithoutBlockSpan ==
    (EmptyIdentifierAgainstIdentified /\ ~IntOk(mt_problem.impacted_block_start_line)) =>
        MtFixed

\* the empty identifier, read as "nan", taken for a renamed block
C30_EmptyIdentifierTakenForRenamed ==
    /\ EmptyIdentifierAgainstIdentified
    /\ original_error_info(mt_problem).block_identifiers = "nan"
    /\ ~MtFixed
    /\ \E e \in MtErrorSet : is_renamed_block_match(e, original_error_info(mt_problem))

-----------------------------------------------------------------------------
(* Clean-line study: the line verdict on diagnostics of two files of the     *)
(* module                                                                    *)

CleanFiles == {"c/p/main.tf", "c/p/vars.tf"}

\* diagnostics at the original line, at the edge of the tolerance and just
\* outside it, in either file, and one without a range
CleanDiagnostics ==
    {extract_row([file |-> f, btype |-> "resource", ident |-> "aws_a x", line |-> l,
                  summary |-> "S", detail |-> "D"]) :
        f \in CleanFiles, l \in {1, 1 + line_tolerance, 2 + line_tolerance}}
    \cup {RangelessRow}

CleanInit ==
    /\ SgIdle
    /\ EcIdle
    /\ HsIdle
    /\ FxIdle
    /\ RdIdle
    /\ McIdle
    /\ WrIdle
    /\ mt_problem \in MtProblems
    /\ mt_errors \in SeqsUpTo(CleanDiagnostics, MaxErrors)
    /\ mt_fix \in {fix \in MtFixes : fix.fixed_content = "x"}
    /\ mt_verdict = [v \in {} |-> TRUE]

SpecClean == CleanInit /\ [][MatchNext]_vars

\* the diagnostics with their file names replaced, position by position
Renamed(errors, files) ==
    [i \in 1..Len(errors) |-> [errors[i] EXCEPT !.filename = files[i]]]

\* C29: the line-is-clean verdict is the same for every assignment of file
\* names to the diagnostics, and a diagnostic of another file than the
\* repaired one within the tolerance of the original line makes it False.
C29_VerdictIgnoresFiles ==
    MtDone =>
        /\ \A files \in [1..Len(mt_errors) -> CleanFiles \cup {""}] :
              check_line_is_clean(original_line(mt_problem), Renamed(mt_errors, files))
                = MtLineIsClean
        /\ (/\ original_line(mt_problem) # -1
            /\ \E e \in MtErrorSet :
                  /\ e.filename = "c/p/vars.tf"
                  /\ NearLine(e, original_line(mt_problem)))
           => MtLineIsClean = "False"

\* the only diagnostic near the original line is one of vars.tf, at the edge
\* of the tolerance
C29_Witness ==
    /\ MtDone
    /\ MtLineIsClean = "False"
    /\ original_line(mt_problem) = 1
    /\ \E e \in MtErrorSet :
          e.filename = "c/p/vars.tf" /\ e.line_start.n = 1 + line_tolerance
    /\ \A e \in MtErrorSet :
          e.filename = "c/p/main.tf" => ~NearLine(e, original_line(mt_problem))

-----------------------------------------------------------------------------
(* Error categorizer: error_categorizer.py *)

\* os.path.basename
RECURSIVE basename(_)
basename(path) ==
    IF Len(path) = 0 THEN ""
    ELSE IF SubSeq(path, Len(path), Len(path)) = "/" THEN ""
    ELSE basename(SubSeq(path, 1, Len(path) - 1)) \o SubSeq(path, Len(path), Len(path))

\* re.search of a pattern made of literal characters and ".", at position i
RegexAt(pat, str, i) ==
    \A j \in 1..Len(pat) :
        \/ SubSeq(pat, j, j) = "."
        \/ SubSeq(pat, j, j) = SubSeq(str, i + j - 1, i + j - 1)

\* Series.str.contains(pat, na=False) on one cell
str_contains(cell, pat) ==
    /\ NotNa(cell)
    /\ \E i \in 1..(Len(cell) - Len(pat) + 1) : RegexAt(pat, cell, i)

\* get_baseline_errors, lines 116-159: the value computed on a cache miss
compute_baseline_errors(original_file) ==
    IF problems.is_none THEN {}
    ELSE {SigBaseline(problems.rows[i]) :
            i \in {j \in 1..Len(problems.rows) :
                     str_contains(problems.rows[j].filename, basename(original_file))}}

\* get_baseline_errors: the value returned
get_baseline_errors(original_file) ==
    IF original_file \in DOMAIN baseline_errors_cache
    THEN baseline_errors_cache[original_file]
    ELSE compute_baseline_errors(original_file)

\* get_existing_experiment_errors, line 174
cache_key(filename, current_iteration_id, original_problem_oid) ==
    filename \o "|" \o Fmt(current_iteration_id) \o "|" \o Fmt(original_problem_oid)

\* a filter that drops the records of the excluded iteration only when they
\* also belong to the scope
history_condition_keeps_own_iteration(error, filename, current_iteration_id, original_problem_oid) ==
    /\ str_contains(error.filename, basename(filename))
    /\ Truthy(original_problem_oid) =>
          Fmt(error.original_problem_oid) = Fmt(original_problem_oid)

\* a filter that ignores the originating problem of the records
history_condition_unscoped(error, filename, current_iteration_id, original_problem_oid) ==
    /\ str_contains(error.filename, basename(filename))
    /\ ~PyEq(error.iteration_id, current_iteration_id)

\* get_existing_experiment_errors, lines 192-200: the row filter
history_condition(error, filename, current_iteration_id, original_problem_oid) ==
    /\ str_contains(error.filename, basename(filename))
    /\ ~PyEq(error.iteration_id, current_iteration_id)
    /\ Truthy(original_problem_oid) =>
          Fmt(error.original_problem_oid) = Fmt(original_problem_oid)

Contains(seq, x) == \E i \in 1..Len(seq) : seq[i] = x

\* a scan that lists an iteration once per kept row
RECURSIVE build_experiment_errors_with_repeats(_, _, _, _, _)
build_experiment_errors_with_repeats(df, filename, current_iteration_id, original_problem_oid, acc) ==
    IF df = <<>> THEN acc
    ELSE LET error == Head(df)
             sig == SigHistory(error)
             iteration == Fmt(error.iteration_id)
             next ==
                 IF ~history_condition(error, filename, current_iteration_id,
                                       original_problem_oid) THEN acc
                 ELSE IF sig \notin DOMAIN acc
                      THEN Put(acc, sig, [first_iteration |-> iteration,
                                          iterations |-> <<iteration>>])
                 ELSE [acc EXCEPT ![sig].iterations = Append(@, iteration)]
         IN  build_experiment_errors_with_repeats(Tail(df), filename,
                 current_iteration_id, original_problem_oid, next)

\* get_existing_experiment_errors, lines 208-231: the scan of the kept rows
RECURSIVE build_experiment_errors(_, _, _, _, _)
build_experiment_errors(df, filename, current_iteration_id, original_problem_oid, acc) ==
    IF df = <<>> THEN acc
    ELSE LET error == Head(df)
             sig == SigHistory(error)
             iteration == Fmt(error.iteration_id)
             next ==
                 IF ~history_condition(error, filename, current_iteration_id,
                                       original_problem_oid) THEN acc
                 ELSE IF sig \notin DOMAIN acc
                      THEN Put(acc, sig, [first_iteration |-> iteration,
                                          iterations |-> <<iteration>>])
                 ELSE IF ~Contains(acc[sig].iterations, iteration)
                      THEN [acc EXCEPT ![sig].iterations = Append(@, iteration)]
                 ELSE acc
         IN  build_experiment_errors(Tail(df), filename, current_iteration_id,
                                     original_problem_oid, next)

\* a lookup that builds the map from whatever rows a failed read left behind
compute_experiment_errors_reads_on_fault(filename, current_iteration_id, original_problem_oid) ==
    build_experiment_errors(read_csv(output_csv), filename, current_iteration_id,
                            original_problem_oid, [sig \in {} |-> <<>>])

\* get_existing_experiment_errors, lines 180-242: the value computed on a miss;
\* write_rows creates the store with its first rows, so a store without rows
\* is no store (lines 180-183); a read that raises yields {} (lines 239-242)
compute_experiment_errors(filename, current_iteration_id, original_problem_oid) ==
    IF output_csv = <<>> THEN [sig \in {} |-> <<>>]
    ELSE IF store_fault THEN [sig \in {} |-> <<>>]
    ELSE build_experiment_errors(read_csv(output_csv), filename, current_iteration_id,
                                 original_problem_oid, [sig \in {} |-> <<>>])

\* get_existing_experiment_errors: the value returned
\* a lookup that reads the store again whatever the cache holds
get_existing_experiment_errors_uncached(filename, current_iteration_id, original_problem_oid) ==
    compute_experiment_errors(filename, current_iteration_id, original_problem_oid)

get_existing_experiment_errors(filename, current_iteration_id, original_problem_oid) ==
    LET key == cache_key(filename, current_iteration_id, original_problem_oid)
    IN  IF key \in DOMAIN experiment_errors_cache
        THEN experiment_errors_cache[key]
        ELSE compute_experiment_errors(filename, current_iteration_id, original_problem_oid)

\* ','.join(iterations)
RECURSIVE join(_)
join(seq) ==
    IF seq = <<>> THEN ""
    ELSE IF Len(seq) = 1 THEN seq[1]
    ELSE seq[1] \o "," \o join(Tail(seq))

Annotation(original, new, new_to_dataset, introduced, first_seen, exists_in) ==
    [is_original_error |-> original, is_new_error |-> new,
     is_new_to_dataset |-> new_to_dataset, introduced_in_this_iteration |-> introduced,
     first_seen_in |-> first_seen, exists_in_iterations |-> exists_in]

\* a three-way check that consults the history before the baseline
annotation_history_first(error, iteration_id, baseline_errors, existing) ==
    LET sig == SigLive(error)
    IN  IF sig \in DOMAIN existing
        THEN Annotation(FALSE, TRUE, FALSE, FALSE, existing[sig].first_iteration,
                        join(existing[sig].iterations))
        ELSE IF sig \in baseline_errors
        THEN Annotation(TRUE, FALSE, FALSE, FALSE, "baseline", "")
        ELSE Annotation(FALSE, TRUE, TRUE, TRUE,
                        IF Truthy(iteration_id) THEN Fmt(iteration_id) ELSE "unknown", "")

\* a three-way check whose last branch forgets the introduced flag
annotation_novel_not_introduced(error, iteration_id, baseline_errors, existing) ==
    LET sig == SigLive(error)
    IN  IF sig \in baseline_errors
        THEN Annotation(TRUE, FALSE, FALSE, FALSE, "baseline", "")
        ELSE IF sig \in DOMAIN existing
        THEN Annotation(FALSE, TRUE, FALSE, FALSE, existing[sig].first_iteration,
                        join(existing[sig].iterations))
        ELSE Annotation(FALSE, TRUE, TRUE, FALSE,
                        IF Truthy(iteration_id) THEN Fmt(iteration_id) ELSE "unknown", "")

\* a three-way check that takes a row annotated truly-novel by an earlier
\* call for one already seen
annotation_counts_own_annotation(error, iteration_id, baseline_errors, existing) ==
    LET sig == SigLive(error)
    IN  IF sig \in baseline_errors
        THEN Annotation(TRUE, FALSE, FALSE, FALSE, "baseline", "")
        ELSE IF sig \in DOMAIN existing
        THEN Annotation(FALSE, TRUE, FALSE, FALSE, existing[sig].first_iteration,
                        join(existing[sig].iterations))
        ELSE IF "first_seen_in" \in DOMAIN error
        THEN Annotation(FALSE, TRUE, FALSE, FALSE, error.first_seen_in, error.first_seen_in)
        ELSE Annotation(FALSE, TRUE, TRUE, TRUE,
                        IF Truthy(iteration_id) THEN Fmt(iteration_id) ELSE "unknown", "")

\* categorize_errors, lines 70-96: the fields set on one diagnostic
annotation(error, iteration_id, baseline_errors, existing) ==
    LET sig == SigLive(error)
    IN  IF sig \in baseline_errors
        THEN Annotation(TRUE, FALSE, FALSE, FALSE, "baseline", "")
        ELSE IF sig \in DOMAIN existing
        THEN Annotation(FALSE, TRUE, FALSE, FALSE, existing[sig].first_iteration,
                        join(existing[sig].iterations))
        ELSE Annotation(FALSE, TRUE, TRUE, TRUE,
                        IF Truthy(iteration_id) THEN Fmt(iteration_id) ELSE "unknown", "")

\* categorize_errors, lines 58-98: the loop; the fields are set on the row
categorize_rows(rows, iteration_id, baseline_errors, existing) ==
    [i \in 1..Len(rows) |->
        annotation(rows[i], iteration_id, baseline_errors, existing) @@ rows[i]]

-----------------------------------------------------------------------------
(* Pipeline: attempts on one file, each validated, persisted and categorized *)

MaxAttempts == 2
MaxDiags == 3

original_file == "c/p/main.tf"
OIDs == {"oidA", "oidB"}

\* the fixes file of the run: (oid, iteration_id) of each proposed fix; the
\* iteration ids number the fixes of one problem, so they repeat across OIDs
Fixes == {<<"oidA", "it1">>, <<"oidB", "it1">>, <<"oidB", "it2">>}

\* the diagnostics a validation of the module can yield
DiagX == [file |-> "c/p/main.tf", btype |-> "resource", ident |-> "aws_a x",
          line |-> 1, summary |-> "S", detail |-> "D"]
DiagY == [file |-> "c/p/main.tf", btype |-> "resource", ident |-> "aws_b y",
          line |-> 2, summary |-> "T", detail |-> "D"]
DiagZ == [file |-> "c/p/main.tf", btype |-> "", ident |-> "",
          line |-> 3, summary |-> "S", detail |-> "D"]
DiagPool == <<extract_row(DiagX), extract_row(DiagY), extract_row(DiagZ)>>

\* the diagnostics of the pool at the positions of I, in the pool's order
RECURSIVE Pick(_, _)
Pick(I, from) ==
    IF from > Len(DiagPool) THEN <<>>
    ELSE (IF from \in I THEN <<DiagPool[from]>> ELSE <<>>) \o Pick(I, from + 1)

ValidationResults ==
    {Pick(I, 1) : I \in {J \in SUBSET (1..Len(DiagPool)) : Cardinality(J) <= MaxDiags}}

\* the problem catalogue: problem X of the file, read by pd.read_csv
NoProblems == [is_none |-> TRUE, rows |-> <<>>]
Catalogue == [is_none |-> FALSE, rows |-> <<catalogue_row(DiagX, TRUE)>>]

EcInit ==
    /\ SgIdle
    /\ MtIdle
    /\ HsIdle
    /\ FxIdle
    /\ RdIdle
    /\ McIdle
    /\ WrIdle
    /\ problems \in {NoProblems, Catalogue}
    /\ output_csv = <<>>
    /\ baseline_errors_cache = [f \in {} |-> {}]
    /\ experiment_errors_cache = [key \in {} |-> <<>>]
    /\ attempts = <<>>
    /\ extracted_rows = <<>>
    /\ existing_experiment_errors = [served_from_cache |-> FALSE, errors |-> <<>>]
    /\ pc = "idle"

Attempted(oid, iteration_id) ==
    \E i \in 1..Len(attempts) :
        attempts[i].oid = oid /\ attempts[i].iteration_id = iteration_id

\* ValidationService.validate_and_extract for the next attempt: the validator
\* yields rows, which write_rows appends with the attempt's ids
Validate ==
    /\ pc \in {"idle", "categorized", "recategorized"}
    /\ Len(attempts) < MaxAttempts
    /\ \E fix \in Fixes, rows \in ValidationResults :
        LET oid == fix[1]
            iteration_id == fix[2]
        IN
          /\ ~Attempted(oid, iteration_id)
          /\ attempts' = Append(attempts, [oid |-> oid, iteration_id |-> iteration_id,
                                            first_row |-> Len(output_csv) + 1,
                                            n_rows |-> Len(rows), scope |-> None])
          /\ extracted_rows' = rows
          /\ output_csv' = output_csv \o enriched_rows(rows, iteration_id, oid)
    /\ pc' = "validated"
    /\ UNCHANGED <<wr_vars, sg_vars, mt_vars, hs_vars, fx_vars, rd_vars, mc_vars, problems, baseline_errors_cache,
                   experiment_errors_cache, existing_experiment_errors>>

\* ErrorCategorizer.categorize_errors(extracted_rows, original_file,
\* iteration_id, None, original_problem_oid)
Categorize ==
    /\ pc = "validated"
    /\ \E original_problem_oid \in OIDs \cup {None} :
          LET iteration_id == attempts[Len(attempts)].iteration_id
              baseline_errors == get_baseline_errors(original_file)
              key == cache_key(original_file, iteration_id, original_problem_oid)
              existing == get_existing_experiment_errors(original_file, iteration_id,
                                                         original_problem_oid)
          IN  /\ baseline_errors_cache' =
                    Put(baseline_errors_cache, original_file, baseline_errors)
              /\ existing_experiment_errors' =
                    [served_from_cache |-> key \in DOMAIN experiment_errors_cache,
                     errors |-> existing]
              /\ experiment_errors_cache' = Put(experiment_errors_cache, key, existing)
              /\ extracted_rows' =
                    categorize_rows(extracted_rows, iteration_id, baseline_errors, existing)
              /\ attempts' = [attempts EXCEPT ![Len(attempts)].scope = original_problem_oid]
    /\ pc' = "categorized"
    /\ UNCHANGED <<wr_vars, sg_vars, mt_vars, hs_vars, fx_vars, rd_vars, mc_vars, problems, output_csv>>

\* a second call of categorize_errors on the rows the first call annotated,
\* with the same file, iteration and scope
Recategorize ==
    /\ pc = "categorized"
    /\ LET iteration_id == attempts[Len(attempts)].iteration_id
           original_problem_oid == attempts[Len(attempts)].scope
           baseline_errors == get_baseline_errors(original_file)
           key == cache_key(original_file, iteration_id, original_problem_oid)
           existing == get_existing_experiment_errors(original_file, iteration_id,
                                                      original_problem_oid)
       IN  /\ baseline_errors_cache' =
                 Put(baseline_errors_cache, original_file, baseline_errors)
           /\ existing_experiment_errors' =
                 [served_from_cache |-> key \in DOMAIN experiment_errors_cache,
                  errors |-> existing]
           /\ experiment_errors_cache' = Put(experiment_errors_cache, key, existing)
           /\ extracted_rows' =
                 categorize_rows(extracted_rows, iteration_id, baseline_errors, existing)
    /\ pc' = "recategorized"
    /\ UNCHANGED <<wr_vars, sg_vars, mt_vars, hs_vars, fx_vars, rd_vars, mc_vars, problems, output_csv, attempts>>

Next == Validate \/ Categorize \/ Recategorize

Spec == EcInit /\ [][Next]_vars

-----------------------------------------------------------------------------
(* Claims about the categorizer *)

Categorized == pc = "categorized"
CurrentAttempt == attempts[Len(attempts)]
BaselineUsed == baseline_errors_cache[original_file]
HistoryUsed == existing_experiment_errors.errors

IsBaseline(r) == r.is_original_error
IsExistingElsewhere(r) == ~r.is_original_error /\ ~r.is_new_to_dataset
IsTrulyNovel(r) == r.is_new_to_dataset

\* C1: a diagnostic whose signature is both in the baseline set and in the
\* history map handed to categorize_errors is annotated as baseline
\* (is_original_error, first_seen_in = "baseline") and as neither
\* existing-elsewhere nor truly-novel.
C1_BaselinePriority ==
    Categorized =>
        \A i \in 1..Len(extracted_rows) :
            LET r == extracted_rows[i]
            IN  (SigLive(r) \in BaselineUsed /\ SigLive(r) \in DOMAIN HistoryUsed) =>
                    /\ IsBaseline(r)
                    /\ r.first_seen_in = "baseline"
                    /\ ~IsExistingElsewhere(r)
                    /\ ~IsTrulyNovel(r)

C1_Witness ==
    /\ Categorized
    /\ \E i \in 1..Len(extracted_rows) :
          /\ SigLive(extracted_rows[i]) \in BaselineUsed
          /\ SigLive(extracted_rows[i]) \in DOMAIN HistoryUsed
          /\ IsBaseline(extracted_rows[i])

CategoriesOf(r) ==
    (IF IsBaseline(r) THEN {"baseline"} ELSE {})
    \cup (IF ~r.is_original_error /\ r.is_new_error /\ ~r.is_new_to_dataset
          THEN {"existing-elsewhere"} ELSE {})
    \cup (IF IsTrulyNovel(r) THEN {"truly-novel"} ELSE {})

\* C2: after categorize_errors every diagnostic carries exactly one of the
\* categories baseline, existing-elsewhere, truly-novel, and
\* introduced_in_this_iteration is true exactly for the truly-novel ones.
C2_ExactlyOneCategory ==
    Categorized =>
        \A i \in 1..Len(extracted_rows) :
            LET r == extracted_rows[i]
            IN  /\ Cardinality(CategoriesOf(r)) = 1
                /\ ~(IsBaseline(r) /\ IsTrulyNovel(r))
                /\ r.introduced_in_this_iteration <=> IsTrulyNovel(r)

C2_Witness ==
    /\ Categorized
    /\ \E i, j, k \in 1..Len(extracted_rows) :
          /\ CategoriesOf(extracted_rows[i]) = {"baseline"}
          /\ CategoriesOf(extracted_rows[j]) = {"existing-elsewhere"}
          /\ CategoriesOf(extracted_rows[k]) = {"truly-novel"}
          /\ extracted_rows[k].introduced_in_this_iteration

\* the records attempt a appended to the store, as a later read sees them
PersistedBy(a) ==
    LET df == read_csv(output_csv)
    IN  {SigHistory(df[j]) :
           j \in attempts[a].first_row .. (attempts[a].first_row + attempts[a].n_rows - 1)}

SigX == SigLive(DiagPool[1])
SigY == SigLive(DiagPool[2])
SigZ == SigLive(DiagPool[3])

\* baseline = {X}; attempt 1 persisted Y and not Z; attempt 2, on another OID,
\* validated {X, Y, Z} and has been categorized
EndToEndCase ==
    /\ Categorized
    /\ Len(attempts) = 2
    /\ BaselineUsed = {SigX}
    /\ attempts[1].oid # attempts[2].oid
    /\ SigY \in PersistedBy(1)
    /\ SigZ \notin PersistedBy(1)
    /\ Len(extracted_rows) = 3

HistorySeesAttempt1 ==
    /\ attempts[1].iteration_id # attempts[2].iteration_id
    /\ attempts[2].scope \in {None, attempts[1].oid}

OnlyPersistedBy(a, sig) ==
    /\ attempts[a].oid # CurrentAttempt.oid
    /\ \A c \in 1..Len(attempts) : (sig \in PersistedBy(c)) <=> (c = a)

PoolSigs == {SigLive(DiagPool[d]) : d \in 1..Len(DiagPool)}

C13_Idempotent == [][Recategorize => extracted_rows' = extracted_rows]_vars

\* the second run has acted on rows of all three categories
C13_Witness ==
    /\ pc = "recategorized"
    /\ existing_experiment_errors.served_from_cache
    /\ \E i, j, k \in 1..Len(extracted_rows) :
          /\ CategoriesOf(extracted_rows[i]) = {"baseline"}
          /\ CategoriesOf(extracted_rows[j]) = {"existing-elsewhere"}
          /\ CategoriesOf(extracted_rows[k]) = {"truly-novel"}

\* C14: when no problem catalogue is supplied the baseline of the file is
\* empty and no post-repair diagnostic is classified truly-novel or
\* introduced-by-this-iteration (its classification is unknown).
C14_MissingCatalogueUnknown ==
    (Categorized /\ problems.is_none) =>
        /\ BaselineUsed = {}
        /\ \A i \in 1..Len(extracted_rows) :
              /\ ~IsTrulyNovel(extracted_rows[i])
              /\ ~extracted_rows[i].introduced_in_this_iteration

\* the part of C14 the code keeps: without a catalogue the baseline is empty
\* and no diagnostic is classified baseline
C14_MissingCatalogueEmptyBaseline ==
    (Categorized /\ problems.is_none) =>
        /\ BaselineUsed = {}
        /\ \A i \in 1..Len(extracted_rows) : ~IsBaseline(extracted_rows[i])

-----------------------------------------------------------------------------
(* History study: lookups on a persisted store that may be missing or       *)
(* unreadable                                                                *)

MaxStoreRows == 2
MaxLookups == 2

\* the scopes a caller can ask for: none, the OIDs of the run, an OID that no
\* record carries
HsScopes == OIDs \cup {None, "oidC"}
HsIterations == {fix[2] : fix \in Fixes}

\* the records write_rows can have appended for the fixes of the run
HsRecords ==
    {enriched_row(DiagPool[d], fix[2], fix[1]) : d \in {2, 3}, fix \in Fixes}

HistInit ==
    /\ SgIdle
    /\ MtIdle
    /\ FxIdle
    /\ RdIdle
    /\ McIdle
    /\ WrIdle
    /\ problems = NoProblems
    /\ output_csv \in SeqsUpTo(HsRecords, MaxStoreRows)
    /\ store_fault \in BOOLEAN
    /\ baseline_errors_cache = [f \in {} |-> {}]
    /\ experiment_errors_cache = [key \in {} |-> <<>>]
    /\ attempts = <<>>
    /\ extracted_rows = <<>>
    /\ existing_experiment_errors = [served_from_cache |-> FALSE, errors |-> <<>>]
    /\ hs_query = <<>>
    /\ pc = "idle"

\* one call of get_existing_experiment_errors(original_file, iteration, scope)
Lookup ==
    /\ Cardinality(DOMAIN experiment_errors_cache) < MaxLookups
    /\ \E current_iteration_id \in HsIterations, original_problem_oid \in HsScopes :
          LET key == cache_key(original_file, current_iteration_id, original_problem_oid)
              existing == get_existing_experiment_errors(original_file,
                              current_iteration_id, original_problem_oid)
          IN  /\ existing_experiment_errors' =
                    [served_from_cache |-> key \in DOMAIN experiment_errors_cache,
                     errors |-> existing]
              /\ experiment_errors_cache' = Put(experiment_errors_cache, key, existing)
              /\ hs_query' = <<current_iteration_id, original_problem_oid>>
    /\ pc' = "looked_up"
    /\ UNCHANGED <<wr_vars, sg_vars, mt_vars, fx_vars, rd_vars, mc_vars, problems, output_csv, baseline_errors_cache,
                   attempts, extracted_rows, store_fault>>

HistNext == Lookup

SpecHist == HistInit /\ [][HistNext]_vars

LookedUp == pc = "looked_up"
QueryScope == hs_query[2]

\* no record of the store carries the scope asked for
NoRecordInScope ==
    /\ Truthy(QueryScope)
    /\ \A i \in 1..Len(output_csv) : output_csv[i].original_problem_oid # QueryScope

\* C15: get_existing_experiment_errors returns the empty map when there is no
\* persisted store, when the store cannot be read, and when no record carries
\* the requested scope OID.
C15_EmptyOnMissingEvidence ==
    (LookedUp /\ (output_csv = <<>> \/ store_fault \/ NoRecordInScope)) =>
        DOMAIN HistoryUsed = {}

\* an unreadable store that holds records the query would otherwise report
C15_Witness ==
    /\ LookedUp
    /\ store_fault
    /\ ~NoRecordInScope
    /\ \E i \in 1..Len(output_csv) : output_csv[i].iteration_id # hs_query[1]
    /\ DOMAIN HistoryUsed = {}

\* a readable store whose records belong to other scopes
C15_WitnessScope ==
    /\ LookedUp /\ ~store_fault /\ output_csv # <<>> /\ NoRecordInScope
    /\ DOMAIN HistoryUsed = {}

-----------------------------------------------------------------------------
(* Scan study: one lookup on a readable store whose records repeat           *)
(* signatures across iterations, scopes and files                            *)

MaxScanRows == 3

ScanIterations == {"it1", "it2", "it3"}

\* the records of the store: one diagnostic of the file seen by three
\* iterations and two scopes, a second diagnostic of the file, and the first
\* diagnostic recorded for another file of the module
ScanRecords ==
    {enriched_row(DiagPool[2], "it1", "oidA"), enriched_row(DiagPool[2], "it2", "oidA"),
     enriched_row(DiagPool[2], "it3", "oidA"), enriched_row(DiagPool[2], "it2", "oidB"),
     enriched_row(DiagPool[3], "it3", "oidA"),
     enriched_row([DiagPool[2] EXCEPT !.filename = "c/p/vars.tf"], "it2", "oidA")}

ScanInit ==
    /\ SgIdle
    /\ MtIdle
    /\ FxIdle
    /\ RdIdle
    /\ McIdle
    /\ WrIdle
    /\ problems = NoProblems
    /\ output_csv \in SeqsUpTo(ScanRecords, MaxScanRows)
    /\ store_fault = FALSE
    /\ baseline_errors_cache = [f \in {} |-> {}]
    /\ experiment_errors_cache = [key \in {} |-> <<>>]
    /\ attempts = <<>>
    /\ extracted_rows = <<>>
    /\ existing_experiment_errors = [served_from_cache |-> FALSE, errors |-> <<>>]
    /\ hs_query = <<>>
    /\ pc = "idle"

\* the first call of get_existing_experiment_errors(original_file, iteration,
\* scope) of a process
FirstLookup ==
    /\ pc = "idle"
    /\ \E current_iteration_id \in ScanIterations, original_problem_oid \in HsScopes :
          LET key == cache_key(original_file, current_iteration_id, original_problem_oid)
              existing == get_existing_experiment_errors(original_file,
                              current_iteration_id, original_problem_oid)
          IN  /\ existing_experiment_errors' =
                    [served_from_cache |-> key \in DOMAIN experiment_errors_cache,
                     errors |-> existing]
              /\ experiment_errors_cache' = Put(experiment_errors_cache, key, existing)
              /\ hs_query' = <<current_iteration_id, original_problem_oid>>
    /\ pc' = "looked_up"
    /\ UNCHANGED <<wr_vars, sg_vars, mt_vars, fx_vars, rd_vars, mc_vars, problems, output_csv,
                   baseline_errors_cache, attempts, extracted_rows, store_fault>>

ScanNext == FirstLookup

SpecScan == ScanInit /\ [][ScanNext]_vars

\* the records of the store that count for the query, by position
Contributing ==
    {i \in 1..Len(output_csv) :
        /\ basename(output_csv[i].filename) = basename(original_file)
        /\ output_csv[i].iteration_id # hs_query[1]
        /\ hs_query[2] \in {None, output_csv[i].original_problem_oid}}

ContributingSig(i) == SigHistory(read_csv(output_csv)[i])
ContributingTo(sig) == {i \in Contributing : ContributingSig(i) = sig}
FirstContributing(sig) ==
    CHOOSE i \in ContributingTo(sig) : \A j \in ContributingTo(sig) : i <= j

-----------------------------------------------------------------------------
(* Relocated catalogue: the pipeline run against a catalogue whose file     *)
(* paths carry another directory prefix than the live tree                  *)

\* problem X of the file, recorded under another checkout directory
RelocatedCatalogue ==
    [is_none |-> FALSE,
     rows |-> <<[catalogue_row(DiagX, TRUE) EXCEPT !.filename = "d/p/main.tf"]>>]

RelocatedInit ==
    /\ SgIdle
    /\ MtIdle
    /\ HsIdle
    /\ FxIdle
    /\ RdIdle
    /\ McIdle
    /\ WrIdle
    /\ problems = RelocatedCatalogue
    /\ output_csv = <<>>
    /\ baseline_errors_cache = [f \in {} |-> {}]
    /\ experiment_errors_cache = [key \in {} |-> <<>>]
    /\ attempts = <<>>
    /\ extracted_rows = <<>>
    /\ existing_experiment_errors = [served_from_cache |-> FALSE, errors |-> <<>>]
    /\ pc = "idle"

SpecRelocated == RelocatedInit /\ [][Next]_vars

\* the diagnostic and the catalogue row name the same defect of the same file,
\* whatever directory each path starts with
SameDefectModuloPrefix(r, problem) ==
    /\ basename(r.filename) = basename(problem.filename)
    /\ r.block_identifiers # ""
    /\ r.block_identifiers = BaselineBlockId(problem)
    /\ r.summary = problem.summary
    /\ r.detail = problem.detail

\* C16: a post-repair diagnostic that agrees with a catalogue row on base
\* filename, block identity, summary and detail is classified baseline, also
\* when the two file paths differ in their directory prefix.
C16_PrefixTolerantBaseline ==
    Categorized =>
        \A i \in 1..Len(extracted_rows), j \in 1..Len(problems.rows) :
            SameDefectModuloPrefix(extracted_rows[i], problems.rows[j])
                => IsBaseline(extracted_rows[i])

\* what the code does: the catalogue row is selected by base filename, and the
\* diagnostic is classified baseline only if the full paths are equal
C16_BaselineNeedsEqualPath ==
    Categorized =>
        \A i \in 1..Len(extracted_rows), j \in 1..Len(problems.rows) :
            SameDefectModuloPrefix(extracted_rows[i], problems.rows[j])
                => (IsBaseline(extracted_rows[i])
                      <=> extracted_rows[i].filename = problems.rows[j].filename)

-----------------------------------------------------------------------------
(* Module study: one attempt whose validation reports diagnostics of other   *)
(* files of the module and diagnostics without a source range                *)

MaxModuleDiags == 2

\* a problem of another file of the module directory
DiagV == [file |-> "c/p/vars.tf", btype |-> "variable", ident |-> "v",
          line |-> 1, summary |-> "U", detail |-> "D"]

\* the catalogue of the module: a problem of the repaired file and a problem
\* of vars.tf
ModuleCatalogue ==
    [is_none |-> FALSE,
     rows |-> <<catalogue_row(DiagX, TRUE), catalogue_row(DiagV, TRUE)>>]

\* what validate_and_extract can return for the module directory
ModuleRows == {extract_row(DiagX), extract_row(DiagY), extract_row(DiagV), RangelessRow}

ModuleInit ==
    /\ SgIdle
    /\ MtIdle
    /\ HsIdle
    /\ FxIdle
    /\ RdIdle
    /\ McIdle
    /\ WrIdle
    /\ problems \in {NoProblems, ModuleCatalogue}
    /\ output_csv = <<>>
    /\ baseline_errors_cache = [f \in {} |-> {}]
    /\ experiment_errors_cache = [key \in {} |-> <<>>]
    /\ attempts = <<>>
    /\ extracted_rows = <<>>
    /\ existing_experiment_errors = [served_from_cache |-> FALSE, errors |-> <<>>]
    /\ pc = "idle"

\* validate_and_extract on the module directory of the repaired file
ValidateModule ==
    /\ pc = "idle"
    /\ \E fix \in Fixes, rows \in SeqsUpTo(ModuleRows, MaxModuleDiags) :
          /\ attempts' = Append(attempts, [oid |-> fix[1], iteration_id |-> fix[2],
                                            first_row |-> Len(output_csv) + 1,
                                            n_rows |-> Len(rows), scope |-> None])
          /\ extracted_rows' = rows
          /\ output_csv' = output_csv \o enriched_rows(rows, fix[2], fix[1])
    /\ pc' = "validated"
    /\ UNCHANGED <<wr_vars, sg_vars, mt_vars, hs_vars, fx_vars, rd_vars, mc_vars, problems,
                   baseline_errors_cache, experiment_errors_cache,
                   existing_experiment_errors>>

ModuleNext == ValidateModule \/ Categorize

SpecModule == ModuleInit /\ [][ModuleNext]_vars

\* C26: a diagnostic without a file path is fatal for categorize_errors: no
\* categorisation completes on a result that holds one, since the failure
\* propagates to the caller instead of a category being assigned.
C26_FilelessDiagnosticIsFatal ==
    Categorized => \A i \in 1..Len(extracted_rows) : Truthy(extracted_rows[i].filename)

\* a diagnostic without a file path that was given a signature and a category
C26_FilelessCategorized ==
    /\ Categorized
    /\ \E i \in 1..Len(extracted_rows) :
          /\ ~Truthy(extracted_rows[i].filename)
          /\ SigLive(extracted_rows[i]) = "|line_None|S|D"
          /\ IsTrulyNovel(extracted_rows[i])

\* the diagnostic has the file, block identity, summary and detail of a row of
\* the catalogue
Remanifests(r) ==
    \E j \in 1..Len(problems.rows) :
        /\ r.filename = problems.rows[j].filename
        /\ r.block_identifiers = BaselineBlockId(problems.rows[j])
        /\ r.summary = problems.rows[j].summary
        /\ r.detail = problems.rows[j].detail

\* C27: every diagnostic of the module-wide validation that re-manifests a
\* catalogued problem is classified baseline and never as introduced by the
\* attempt, in whichever file of the module it is located.
C27_GhostsModuleWide ==
    Categorized =>
        \A i \in 1..Len(extracted_rows) :
            Remanifests(extracted_rows[i]) =>
                /\ IsBaseline(extracted_rows[i])
                /\ ~extracted_rows[i].introduced_in_this_iteration

\* the part the code keeps: the ghosts located in the repaired file
C27_GhostsOfRepairedFile ==
    Categorized =>
        \A i \in 1..Len(extracted_rows) :
            (Remanifests(extracted_rows[i]) /\ extracted_rows[i].filename = original_file) =>
                /\ IsBaseline(extracted_rows[i])
                /\ ~extracted_rows[i].introduced_in_this_iteration

\* a catalogued problem of vars.tf reported after the repair of main.tf and
\* classified as introduced by the attempt
C27_GhostTakenForNew ==
    /\ Categorized
    /\ \E i \in 1..Len(extracted_rows) :
          /\ Remanifests(extracted_rows[i])
          /\ extracted_rows[i].filename = "c/p/vars.tf"
          /\ IsTrulyNovel(extracted_rows[i])
          /\ extracted_rows[i].introduced_in_this_iteration

-----------------------------------------------------------------------------
(* Fix applier: apply_fix.py *)

\* os.path.abspath of a path without "." and ".." components
abspath(path, cwd) ==
    IF Len(path) > 0 /\ SubSeq(path, 1, 1) = "/" THEN path ELSE cwd \o "/" \o path

\* os.path.dirname
RECURSIVE dirname(_)
dirname(path) ==
    IF Len(path) = 0 THEN ""
    ELSE IF SubSeq(path, Len(path), Len(path)) = "/" THEN SubSeq(path, 1, Len(path) - 1)
    ELSE dirname(SubSeq(path, 1, Len(path) - 1))

\* original_file.replace(os.sep, '_').replace(':', '_').replace('.', '_')
RECURSIVE safe_name(_)
safe_name(path) ==
    IF Len(path) = 0 THEN ""
    ELSE (IF SubSeq(path, 1, 1) \in {"/", ":", "."} THEN "_" ELSE SubSeq(path, 1, 1))
         \o safe_name(SubSeq(path, 2, Len(path)))

\* apply_fix, lines 36-40
backup_path(target_file, temp_dir) ==
    temp_dir \o "/" \o "tfrepair_backup_" \o safe_name(target_file) \o ".tf"

\* position of the first newline of a text, 0 if it has none
FirstNewline(text) ==
    IF \E i \in 1..Len(text) : SubSeq(text, i, i) = "\n"
    THEN CHOOSE i \in 1..Len(text) :
            /\ SubSeq(text, i, i) = "\n"
            /\ \A j \in 1..(i - 1) : SubSeq(text, j, j) # "\n"
    ELSE 0

\* f.readlines(): the lines of a text, each with its newline
RECURSIVE readlines(_)
readlines(text) ==
    IF Len(text) = 0 THEN <<>>
    ELSE IF FirstNewline(text) = 0 THEN <<text>>
    ELSE <<SubSeq(text, 1, FirstNewline(text))>>
         \o readlines(SubSeq(text, FirstNewline(text) + 1, Len(text)))

\* "".join(lines)
RECURSIVE concat(_)
concat(lines) == IF lines = <<>> THEN "" ELSE Head(lines) \o concat(Tail(lines))

endswith_newline(text) == Len(text) > 0 /\ SubSeq(text, Len(text), Len(text)) = "\n"

Min(a, b) == IF a < b THEN a ELSE b
Max(a, b) == IF a < b THEN b ELSE a

\* apply_fix, lines 50-67: the content written to the target
new_content(backup_content, llm_fixed_content, start_line, end_line) ==
    IF start_line.k # "none" /\ end_line.k # "none"
    THEN LET lines == readlines(backup_content)
             idx_start == Max(start_line.n - 1, 0)
             idx_end == Min(end_line.n, Len(lines))
             terminated == IF endswith_newline(llm_fixed_content)
                           THEN llm_fixed_content ELSE llm_fixed_content \o "\n"
         IN  concat(SubSeq(lines, 1, Min(idx_start, Len(lines))))
             \o terminated
             \o concat(SubSeq(lines, idx_end + 1, Len(lines)))
    ELSE llm_fixed_content

\* shutil.move(src, dst) between files: dst is replaced
move(files, src, dst) ==
    [path \in (DOMAIN files \ {src}) \cup {dst} |->
        IF path = dst THEN files[src] ELSE files[path]]

\* open(path, "w").write(text)
write(files, path, text) ==
    [p \in DOMAIN files \cup {path} |-> IF p = path THEN text ELSE files[p]]

\* os.remove(path)
remove(files, path) == [p \in DOMAIN files \ {path} |-> files[p]]

\* apply_fix, lines 43-71, on an existing target: the file system it leaves
apply_fix(files, target_file, temp_dir, llm_fixed_content, start_line, end_line) ==
    LET backup == backup_path(target_file, temp_dir)
        moved == move(files, target_file, backup)
    IN  write(moved, target_file,
              new_content(moved[backup], llm_fixed_content, start_line, end_line))

\* a restore that leaves the file system as it is
restore_original_skipped(files, target_file, backup) == files

\* a restore that copies the backup over the target and leaves it in place
restore_original_keeps_backup(files, target_file, backup) ==
    IF backup \in DOMAIN files
    THEN write(files, target_file, files[backup])
    ELSE files

\* restore_original, lines 88-97: the file system it leaves
restore_original(files, target_file, backup) ==
    IF backup \in DOMAIN files
    THEN move(IF target_file \in DOMAIN files THEN remove(files, target_file)
              ELSE files,
              backup, target_file)
    ELSE files

-----------------------------------------------------------------------------
(* Fix applier study: one target file, one replacement, apply then restore *)

MaxRange == 3

FxCwd == "/w"
FxTarget == "m/main.tf"
FxTargetAbs == abspath(FxTarget, FxCwd)
FxModuleDir == dirname(FxTargetAbs)

\* tempfile.gettempdir(): the system's, or a TMPDIR that is the module directory
FxTempDirs == {"/tmp", FxModuleDir}
FxOriginals == {"a\nb\nc\n", "a\nb"}
FxReplacements == {"x", "x\ny\n"}

\* whole-file fixes carry no coordinates, block fixes carry a line range, and
\* a fix row can lack its line_end
FxRanges ==
    {<<NoneCell, NoneCell>>}
    \cup {<<IntCell(a), IntCell(b)>> : a \in 1..MaxRange, b \in 1..MaxRange}
    \cup {<<IntCell(1), NoneCell>>}

FixInit ==
    /\ SgIdle
    /\ MtIdle
    /\ EcIdle
    /\ HsIdle
    /\ RdIdle
    /\ McIdle
    /\ WrIdle
    /\ fx_call \in [temp_dir : FxTempDirs, original_content : FxOriginals,
                    llm_fixed_content : FxReplacements, range : FxRanges]
    /\ \E target_exists \in BOOLEAN, stale_backup \in BOOLEAN :
          fs = [path \in (IF target_exists THEN {FxTargetAbs} ELSE {})
                         \cup (IF stale_backup
                               THEN {backup_path(FxTargetAbs, fx_call.temp_dir)} ELSE {})
                  |-> IF path = FxTargetAbs THEN fx_call.original_content ELSE "stale"]
    /\ fx_handle = None
    /\ fx_pc = "idle"

\* FixApplier.apply_fix(original_file, llm_fixed_content, start_line, end_line)
ApplyFix ==
    /\ fx_pc = "idle"
    /\ IF FxTargetAbs \notin DOMAIN fs
       THEN /\ fx_pc' = "raised"
            /\ UNCHANGED <<fs, fx_handle>>
       ELSE /\ fs' = apply_fix(fs, FxTargetAbs, fx_call.temp_dir, fx_call.llm_fixed_content,
                               fx_call.range[1], fx_call.range[2])
            /\ fx_handle' = backup_path(FxTargetAbs, fx_call.temp_dir)
            /\ fx_pc' = "applied"
    /\ UNCHANGED <<wr_vars, sg_vars, mt_vars, ec_vars, hs_vars, rd_vars, mc_vars, fx_call>>

\* FixApplier.restore_original(original_file, backup_path)
RestoreOriginal ==
    /\ fx_pc = "applied"
    /\ fs' = restore_original(fs, FxTargetAbs, abspath(fx_handle, FxCwd))
    /\ fx_pc' = "restored"
    /\ UNCHANGED <<wr_vars, sg_vars, mt_vars, ec_vars, hs_vars, rd_vars, mc_vars, fx_call, fx_handle>>

FixNext == ApplyFix \/ RestoreOriginal

SpecFix == FixInit /\ [][FixNext]_vars

-----------------------------------------------------------------------------
(* Abort study: any sequence of apply_fix and restore_original calls on one  *)
(* target, as left by attempts that stop between the two                     *)

MaxCalls == 3

AbTempDir == "/tmp"
AbBackup == backup_path(FxTargetAbs, AbTempDir)

AbortInit ==
    /\ SgIdle
    /\ MtIdle
    /\ EcIdle
    /\ HsIdle
    /\ RdIdle
    /\ McIdle
    /\ WrIdle
    /\ fx_call \in [original_content : FxOriginals, calls : {<<>>}]
    /\ fs = [path \in {FxTargetAbs} |-> fx_call.original_content]
    /\ fx_handle = None
    /\ fx_pc = "idle"

\* FixApplier.apply_fix on the target, whatever was called before
ApplyFixCall ==
    /\ Len(fx_call.calls) < MaxCalls
    /\ \E llm_fixed_content \in FxReplacements,
          range \in {<<NoneCell, NoneCell>>, <<IntCell(2), IntCell(2)>>} :
          IF FxTargetAbs \notin DOMAIN fs
          THEN /\ fx_pc' = "raised"
               /\ fx_call' = [fx_call EXCEPT !.calls = Append(@, "raised")]
               /\ UNCHANGED <<fs, fx_handle>>
          ELSE /\ fs' = apply_fix(fs, FxTargetAbs, AbTempDir, llm_fixed_content,
                                  range[1], range[2])
               /\ fx_handle' = AbBackup
               /\ fx_pc' = "applied"
               /\ fx_call' = [fx_call EXCEPT !.calls = Append(@, "apply_fix")]
    /\ UNCHANGED <<wr_vars, sg_vars, mt_vars, ec_vars, hs_vars, rd_vars, mc_vars>>

\* FixApplier.restore_original with the handle of the last apply_fix
RestoreOriginalCall ==
    /\ Len(fx_call.calls) < MaxCalls
    /\ fx_handle # None
    /\ fs' = restore_original(fs, FxTargetAbs, abspath(fx_handle, FxCwd))
    /\ fx_pc' = "restored"
    /\ fx_call' = [fx_call EXCEPT !.calls = Append(@, "restore_original")]
    /\ UNCHANGED <<wr_vars, sg_vars, mt_vars, ec_vars, hs_vars, rd_vars, mc_vars, fx_handle>>

AbortNext == ApplyFixCall \/ RestoreOriginalCall

SpecAbort == AbortInit /\ [][AbortNext]_vars

HoldsOriginal(path) == path \in DOMAIN fs /\ fs[path] = fx_call.original_content

\* C25: after any sequence of apply_fix and restore_original calls on the
\* target, the content it had before the first apply_fix is intact at the
\* target path or at the backup handle.
C25_OriginalRecoverable ==
    HoldsOriginal(FxTargetAbs) \/ HoldsOriginal(AbBackup)

\* the part the code keeps: the original is at the target or at the backup as
\* long as no apply_fix follows an apply_fix without a restore in between
NoApplyOnApplied ==
    \A i \in 1..(Len(fx_call.calls) - 1) :
        ~(fx_call.calls[i] = "apply_fix" /\ fx_call.calls[i + 1] = "apply_fix")

C25_RecoverableWhenAlternating ==
    NoApplyOnApplied => (HoldsOriginal(FxTargetAbs) \/ HoldsOriginal(AbBackup))

\* two apply_fix calls in a row: the backup holds the first repair
C25_BackupOverwritten ==
    /\ Len(fx_call.calls) = 2
    /\ ~NoApplyOnApplied
    /\ ~HoldsOriginal(FxTargetAbs)
    /\ ~HoldsOriginal(AbBackup)

-----------------------------------------------------------------------------
(* Pair study: two attempts on distinct files of one tree, each applying and *)
(* restoring, their steps interleaved                                        *)

PairProcs == {1, 2}
PairTempDir == "/tmp"

\* absolute paths of three files of the tree
PairTargets == {"/w/net/main.tf", "/w/net_main.tf", "/w/db/main.tf"}

\* what each file holds before the attempts
PairOriginal(path) == "content of " \o path \o "\n"

PairInit ==
    /\ SgIdle
    /\ MtIdle
    /\ EcIdle
    /\ HsIdle
    /\ RdIdle
    /\ McIdle
    /\ WrIdle
    /\ fx_call \in [PairProcs -> [target : PairTargets, llm_fixed_content : FxReplacements]]
    /\ fx_call[1].target # fx_call[2].target
    /\ fs = [path \in PairTargets |-> PairOriginal(path)]
    /\ fx_handle = [p \in PairProcs |-> None]
    /\ fx_pc = [p \in PairProcs |-> "idle"]

\* FixApplier.apply_fix by one of the two attempts
PairApplyFix ==
    /\ \E p \in PairProcs :
          /\ fx_pc[p] = "idle"
          /\ fx_call[p].target \in DOMAIN fs
          /\ fs' = apply_fix(fs, fx_call[p].target, PairTempDir,
                             fx_call[p].llm_fixed_content, NoneCell, NoneCell)
          /\ fx_handle' = [fx_handle EXCEPT ![p] = backup_path(fx_call[p].target, PairTempDir)]
          /\ fx_pc' = [fx_pc EXCEPT ![p] = "applied"]
    /\ UNCHANGED <<wr_vars, sg_vars, mt_vars, ec_vars, hs_vars, rd_vars, mc_vars, fx_call>>

\* FixApplier.restore_original by the attempt that holds the handle
PairRestoreOriginal ==
    /\ \E p \in PairProcs :
          /\ fx_pc[p] = "applied"
          /\ fs' = restore_original(fs, fx_call[p].target, fx_handle[p])
          /\ fx_pc' = [fx_pc EXCEPT ![p] = "restored"]
    /\ UNCHANGED <<wr_vars, sg_vars, mt_vars, ec_vars, hs_vars, rd_vars, mc_vars, fx_call,
                   fx_handle>>

PairNext == PairApplyFix \/ PairRestoreOriginal

SpecPair == PairInit /\ [][PairNext]_vars

\* C28: distinct target paths get distinct backup paths, so each of two
\* attempts running concurrently on distinct files gets its own file's
\* original content back from restore_original.
C28_BackupsUniquePerTarget ==
    /\ \A p, q \in PairProcs :
          (p # q /\ fx_handle[p] # None /\ fx_handle[q] # None) =>
              fx_handle[p] # fx_handle[q]
    /\ \A p \in PairProcs :
          fx_pc[p] = "restored" =>
              /\ fx_call[p].target \in DOMAIN fs
              /\ fs[fx_call[p].target] = PairOriginal(fx_call[p].target)

\* the part the code keeps: a restore returns the file's own content when the
\* two targets have different safe names
C28_RestoredWhenSafeNamesDiffer ==
    safe_name(fx_call[1].target) # safe_name(fx_call[2].target) =>
        \A p \in PairProcs :
            fx_pc[p] = "restored" =>
                /\ fx_call[p].target \in DOMAIN fs
                /\ fs[fx_call[p].target] = PairOriginal(fx_call[p].target)

\* both attempts restored, one file holds the other file's content and the
\* other still holds its repair
C28_BackupCollision ==
    /\ \A p \in PairProcs : fx_pc[p] = "restored"
    /\ fx_handle[1] = fx_handle[2]
    /\ \E p, q \in PairProcs :
          /\ fs[fx_call[p].target] = PairOriginal(fx_call[q].target)
          /\ p # q
          /\ fs[fx_call[q].target] = fx_call[q].llm_fixed_content

-----------------------------------------------------------------------------
(* Claims about the fix applier *)

\* what a line-range fix that starts inside the file must leave: the lines
\* before the range, the replacement's lines, each ended by a newline, the
\* lines after the range
SplicedLines ==
    LET lines == readlines(fx_call.original_content)
        a == fx_call.range[1].n
        b == fx_call.range[2].n
        fix == readlines(fx_call.llm_fixed_content)
    IN  SubSeq(lines, 1, a - 1)
        \o [i \in 1..Len(fix) |->
               IF endswith_newline(fix[i]) THEN fix[i] ELSE fix[i] \o "\n"]
        \o SubSeq(lines, Min(b, Len(lines)) + 1, Len(lines))

WholeFileFix == fx_call.range[1].k = "none" \/ fx_call.range[2].k = "none"
RangeInsideFile ==
    /\ ~WholeFileFix
    /\ fx_call.range[1].n <= fx_call.range[2].n
    /\ fx_call.range[1].n <= Len(readlines(fx_call.original_content))

HoldsRepairedContent ==
    /\ WholeFileFix => fs[FxTargetAbs] = fx_call.llm_fixed_content
    /\ RangeInsideFile => readlines(fs[FxTargetAbs]) = SplicedLines

BackupHoldsOriginal ==
    /\ fx_handle \in DOMAIN fs
    /\ fs[fx_handle] = fx_call.original_content

C17_WitnessApplied ==
    /\ fx_pc = "applied"
    /\ fx_call.range = <<IntCell(2), IntCell(2)>>
    /\ fx_call.llm_fixed_content = "x"
    /\ fs[FxTargetAbs] = "a\nx\nc\n"
    /\ fs[fx_handle] = "a\nb\nc\n"

\* the lines the claim describes: the original lines before start_line, the
\* lines of the replacement (the last one terminated), the original lines
\* after end_line, with both bounds clamped to the file
ReplacedLines ==
    LET lines == readlines(fx_call.original_content)
        a == fx_call.range[1].n
        b == fx_call.range[2].n
        fix == readlines(fx_call.llm_fixed_content)
    IN  SubSeq(lines, 1, Min(Max(a - 1, 0), Len(lines)))
        \o [i \in 1..Len(fix) |->
               IF endswith_newline(fix[i]) THEN fix[i] ELSE fix[i] \o "\n"]
        \o SubSeq(lines, Min(b, Len(lines)) + 1, Len(lines))

\* C22, as stated: after a line-range apply_fix the target's lines are the
\* original lines before start_line, the replacement with a final newline,
\* and the original lines after end_line; no line outside the range changes
\* and bounds beyond the file are clamped.
C22_LineRangeReplacement ==
    (fx_pc = "applied" /\ ~WholeFileFix) => readlines(fs[FxTargetAbs]) = ReplacedLines

\* the same for an original whose last line is terminated, or a range that
\* starts inside the file
C22_ReplacementOfTerminatedLines ==
    (/\ fx_pc = "applied" /\ ~WholeFileFix
     /\ \/ endswith_newline(fx_call.original_content)
        \/ fx_call.range[1].n <= Len(readlines(fx_call.original_content)))
    => readlines(fs[FxTargetAbs]) = ReplacedLines

\* a range that starts after the last line of a file without a final
\* newline: the replacement is glued to the last line
C22_GluedLine ==
    /\ fx_pc = "applied"
    /\ fx_call.original_content = "a\nb"
    /\ fx_call.llm_fixed_content = "x"
    /\ fx_call.range = <<IntCell(3), IntCell(3)>>
    /\ fs[FxTargetAbs] = "a\nbx\n"

-----------------------------------------------------------------------------
(* Legacy driver: RepairEvaluator of repair_driver.py.  The evaluator is    *)
(* built with clones_root "clones" and repair_mode "auto"; the fixes table  *)
(* has no project_name and no fixed_code column.                            *)

clones_root == "clones"

startswith(s, prefix) == Len(s) >= Len(prefix) /\ SubSeq(s, 1, Len(prefix)) = prefix

\* position of the first "/" of a path, 0 if it has none
FirstSlash(path) ==
    IF \E i \in 1..Len(path) : SubSeq(path, i, i) = "/"
    THEN CHOOSE i \in 1..Len(path) :
            /\ SubSeq(path, i, i) = "/"
            /\ \A j \in 1..(i - 1) : SubSeq(path, j, j) # "/"
    ELSE 0

\* path.split("/")
RECURSIVE split(_)
split(path) ==
    IF FirstSlash(path) = 0 THEN <<path>>
    ELSE <<SubSeq(path, 1, FirstSlash(path) - 1)>>
         \o split(SubSeq(path, FirstSlash(path) + 1, Len(path)))

_extract_project_name(row) ==
    LET parts == split(row.filename)
    IN  IF Len(parts) > 1 /\ parts[1] = "clones" THEN parts[2] ELSE None

_get_original_file_path(filename) ==
    clones_root \o "/"
    \o (IF startswith(filename, "clones/") THEN SubSeq(filename, 8, Len(filename))
        ELSE filename)

\* the first catalogue row of an oid, <<>> if there is none
problems_match(oid) ==
    IF problems.is_none \/ ~(\E i \in 1..Len(problems.rows) : problems.rows[i].oid = oid)
    THEN <<>>
    ELSE <<problems.rows[CHOOSE i \in 1..Len(problems.rows) :
                            /\ problems.rows[i].oid = oid
                            /\ \A j \in 1..(i - 1) : problems.rows[j].oid # oid]>>

_get_block_coordinates_from_problems(oid) ==
    IF problems.is_none \/ ~Truthy(oid) \/ problems_match(oid) = <<>>
    THEN <<NoneCell, NoneCell>>
    ELSE <<IntCell(problems_match(oid)[1].impacted_block_start_line.n),
           IntCell(problems_match(oid)[1].impacted_block_end_line.n)>>

\* int(row[column]) if the cell is there, else None
RowLine(cell) == IF cell.k \in {"none", "nan"} THEN NoneCell ELSE IntCell(cell.n)

_get_fix_content_and_coordinates(row) ==
    IF NotNa(row.fixed_file)
    THEN [fixed_content |-> row.fixed_file, start_line |-> NoneCell, end_line |-> NoneCell]
    ELSE LET found == IF NotNa(row.oid)
                      THEN _get_block_coordinates_from_problems(row.oid)
                      ELSE <<NoneCell, NoneCell>>
         IN  [fixed_content |-> IF NotNa(row.fixed_block_content)
                                THEN row.fixed_block_content ELSE None,
              start_line |-> IF found[1].k = "none" THEN RowLine(row.line_start)
                             ELSE found[1],
              end_line |-> IF found[2].k = "none" THEN RowLine(row.line_end)
                           ELSE found[2]]

\* the three defects a module of the study can have, each reported by
\* terraform validate while its line is in the file
RdDiagX == [DiagX EXCEPT !.file = "clones/p/main.tf"]
RdDiagY == [DiagY EXCEPT !.file = "clones/p/main.tf"]
RdDiagZ == [DiagZ EXCEPT !.file = "clones/p/main.tf"]

\* TerraformValidator.validate(module_dir) followed by
\* DiagnosticsExtractor.extract_rows: the diagnostics of the module as it is
\* on disk when the validator runs
validate(files, target_file) ==
    IF target_file \notin DOMAIN files THEN <<>>
    ELSE (IF str_contains(files[target_file], "a") THEN <<extract_row(RdDiagX)>> ELSE <<>>)
         \o (IF str_contains(files[target_file], "y") THEN <<extract_row(RdDiagY)>> ELSE <<>>)
         \o (IF str_contains(files[target_file], "z") THEN <<extract_row(RdDiagZ)>> ELSE <<>>)

\* _get_baseline_errors: from a validation of the module when no catalogue
\* was loaded, else from the catalogue rows of the file
_get_baseline_errors(files, original_path) ==
    IF problems.is_none
    THEN LET rows == validate(files, abspath(original_path, FxCwd))
         IN  {SigLive(rows[i]) : i \in 1..Len(rows)}
    ELSE {SigBaseline(problems.rows[i]) :
            i \in {j \in 1..Len(problems.rows) :
                     str_contains(problems.rows[j].filename, basename(original_path))}}

\* _apply_and_validate, lines 172-186: the two-way annotation
RECURSIVE two_way(_, _)
two_way(rows, baseline_errors) ==
    IF rows = <<>> THEN <<>>
    ELSE <<[filename |-> Head(rows).filename,
            block_identifiers |-> Head(rows).block_identifiers,
            line_start |-> Head(rows).line_start,
            summary |-> Head(rows).summary,
            detail |-> Head(rows).detail,
            is_original_error |-> SigLive(Head(rows)) \in baseline_errors,
            is_new_error |-> SigLive(Head(rows)) \notin baseline_errors]>>
         \o two_way(Tail(rows), baseline_errors)

_apply_and_validate(files, original_path, baseline_errors) ==
    two_way(validate(files, abspath(original_path, FxCwd)), baseline_errors)

_calculate_error_metrics(rows, original_path) ==
    [total |-> Len(rows),
     in_file |-> Cardinality({i \in 1..Len(rows) :
                    _get_original_file_path(rows[i].filename) = original_path}),
     in_module |-> Len(rows),
     original |-> Cardinality({i \in 1..Len(rows) : rows[i].is_original_error}),
     new |-> Cardinality({i \in 1..Len(rows) : rows[i].is_new_error})]

_evaluate_resolution_metrics(row, rows, fix) ==
    IF problems_match(row.oid) = <<>>
    THEN [line_is_clean |-> None, specific_error_fixed |-> None]
    ELSE LET p == problems_match(row.oid)[1]
         IN  [line_is_clean |-> check_line_is_clean(original_line(p), rows),
              specific_error_fixed |->
                  check_specific_error_fixed(original_error_info(p), rows,
                                             fix_context(fix))]

_create_outcome_row(row, original_path, resolution_metrics, error_counts) ==
    [oid |-> row.oid,
     iteration_id |-> row.iteration_id,
     filename |-> original_path,
     line_is_clean |-> resolution_metrics.line_is_clean,
     line_specific_error_fixed |-> resolution_metrics.specific_error_fixed,
     module_total_errors |-> error_counts.total,
     file_errors |-> error_counts.in_file,
     module_errors |-> error_counts.in_module,
     module_original_errors_remaining |-> error_counts.original,
     module_fix_introduced_errors |-> error_counts.new]

\* an outcomes store that keeps only the latest row
to_csv_overwrite(rows, row) == <<row>>

\* pd.DataFrame([outcome_row]).to_csv(outcomes_csv, mode='a', header=False)
to_csv_append(rows, row) == Append(rows, row)

-----------------------------------------------------------------------------
(* Driver study: one module with one file, a fixes table of a few rows *)

MaxFixRows == 2

RdOriginal == "a\nb\nc\n"
RdTempDir == "/tmp"
RdTarget(row) == abspath(_get_original_file_path(row.filename), FxCwd)

\* the rows a fixes table can hold: a whole-file fix, a block fix, or no fix
\* content at all; a file under clones/ or elsewhere
RdFixRows ==
    {[oid |-> o, iteration_id |-> "it1", filename |-> f,
      fixed_file |-> c[1], fixed_block_content |-> c[2],
      line_start |-> IntCell(2), line_end |-> IntCell(2)] :
        o \in OIDs, f \in {"clones/p/main.tf", "other/main.tf"},
        c \in {<<NaN, NaN>>, <<"x\n", NaN>>, <<"a\ny\n", NaN>>, <<NaN, "z">>}}

\* the catalogue of the driver: problem oidA, defect X, with its block
RdCatalogue ==
    [is_none |-> FALSE,
     rows |-> <<[oid |-> "oidA",
                 block_identifiers |-> "resource aws_a x",
                 impacted_block_start_line |-> IntCell(1),
                 impacted_block_end_line |-> IntCell(2)]
                @@ catalogue_row(RdDiagX, TRUE)>>]

DriverInit ==
    /\ SgIdle
    /\ MtIdle
    /\ HsIdle
    /\ McIdle
    /\ WrIdle
    /\ problems \in {NoProblems, RdCatalogue}
    /\ output_csv = <<>>
    /\ baseline_errors_cache = [f \in {} |-> {}]
    /\ experiment_errors_cache = [key \in {} |-> <<>>]
    /\ attempts = <<>>
    /\ extracted_rows = <<>>
    /\ existing_experiment_errors = [served_from_cache |-> FALSE, errors |-> <<>>]
    /\ pc = "idle"
    /\ fs = [path \in {abspath(_get_original_file_path("clones/p/main.tf"), FxCwd)}
               |-> RdOriginal]
    /\ fx_call = <<>>
    /\ fx_handle = None
    /\ fx_pc = "idle"
    /\ llm_fixes \in SeqsUpTo(RdFixRows, MaxFixRows)
    /\ outcomes_csv = <<>>
    /\ rd_events = <<>>
    /\ rd_row = 1
    /\ rd_pc = "loop"

Seen(files, target_file) ==
    IF target_file \in DOMAIN files THEN files[target_file] ELSE None

Event(call, target_file, handle, seen) ==
    [call |-> call, row |-> rd_row, target |-> target_file, handle |-> handle,
     seen |-> seen]

\* lines 374-399: the row is skipped, or its baseline is looked up
BeginRow ==
    /\ rd_pc = "loop"
    /\ rd_row <= Len(llm_fixes)
    /\ LET row == llm_fixes[rd_row]
           original_path == _get_original_file_path(row.filename)
           fix == _get_fix_content_and_coordinates(row)
       IN  IF _extract_project_name(row) = None \/ ~NotNa(fix.fixed_content)
           THEN /\ rd_row' = rd_row + 1
                /\ UNCHANGED <<rd_pc, rd_events, baseline_errors_cache>>
           ELSE /\ rd_pc' = "apply"
                /\ IF original_path \in DOMAIN baseline_errors_cache
                   THEN UNCHANGED <<rd_events, baseline_errors_cache>>
                   ELSE /\ baseline_errors_cache' =
                              Put(baseline_errors_cache, original_path,
                                  _get_baseline_errors(fs, original_path))
                        /\ rd_events' =
                              IF problems.is_none
                              THEN Append(rd_events,
                                          Event("validate", RdTarget(row), None,
                                                Seen(fs, RdTarget(row))))
                              ELSE rd_events
                /\ UNCHANGED rd_row
    /\ UNCHANGED <<wr_vars, sg_vars, mt_vars, hs_vars, fx_vars, mc_vars, problems, output_csv,
                   experiment_errors_cache, attempts, extracted_rows,
                   existing_experiment_errors, pc, llm_fixes, outcomes_csv>>

\* lines 401-406: FixApplier.apply_fix
RdApplyFix ==
    /\ rd_pc = "apply"
    /\ LET row == llm_fixes[rd_row]
           fix == _get_fix_content_and_coordinates(row)
       IN  IF RdTarget(row) \notin DOMAIN fs
           THEN /\ rd_pc' = "raised"
                /\ UNCHANGED <<fs, fx_handle, rd_events>>
           ELSE /\ fs' = apply_fix(fs, RdTarget(row), RdTempDir, fix.fixed_content,
                                   fix.start_line, fix.end_line)
                /\ fx_handle' = backup_path(RdTarget(row), RdTempDir)
                /\ rd_events' = Append(rd_events,
                                       Event("apply_fix", RdTarget(row),
                                             backup_path(RdTarget(row), RdTempDir), None))
                /\ rd_pc' = "validate"
    /\ UNCHANGED <<wr_vars, sg_vars, mt_vars, ec_vars, hs_vars, mc_vars, fx_call, fx_pc,
                   llm_fixes, outcomes_csv, rd_row>>

\* lines 409-413: _apply_and_validate
RdValidate ==
    /\ rd_pc = "validate"
    /\ LET row == llm_fixes[rd_row]
           original_path == _get_original_file_path(row.filename)
       IN  /\ extracted_rows' = _apply_and_validate(fs, original_path,
                                                    baseline_errors_cache[original_path])
           /\ output_csv' = output_csv
                            \o enriched_rows(extracted_rows', row.iteration_id, None)
           /\ rd_events' = Append(rd_events,
                                  Event("validate", RdTarget(row), None,
                                        Seen(fs, RdTarget(row))))
    /\ rd_pc' = "outcome"
    /\ UNCHANGED <<wr_vars, sg_vars, mt_vars, hs_vars, fx_vars, mc_vars, problems,
                   baseline_errors_cache, experiment_errors_cache, attempts,
                   existing_experiment_errors, pc, llm_fixes, outcomes_csv, rd_row>>

\* lines 416-428: the outcome row is built and appended
RecordOutcome ==
    /\ rd_pc = "outcome"
    /\ LET row == llm_fixes[rd_row]
           original_path == _get_original_file_path(row.filename)
       IN  outcomes_csv' =
               to_csv_append(outcomes_csv,
                   _create_outcome_row(row, original_path,
                       _evaluate_resolution_metrics(row, extracted_rows,
                           _get_fix_content_and_coordinates(row)),
                       _calculate_error_metrics(extracted_rows, original_path)))
    /\ rd_pc' = "restore"
    /\ UNCHANGED <<wr_vars, sg_vars, mt_vars, ec_vars, hs_vars, fx_vars, mc_vars, llm_fixes,
                   rd_events, rd_row>>

\* line 431: FixApplier.restore_original(original_file, backup_path)
RdRestoreOriginal ==
    /\ rd_pc = "restore"
    /\ LET row == llm_fixes[rd_row]
       IN  /\ fs' = restore_original(fs, RdTarget(row), abspath(fx_handle, FxCwd))
           /\ rd_events' = Append(rd_events,
                                  Event("restore_original", RdTarget(row), fx_handle, None))
    /\ rd_row' = rd_row + 1
    /\ rd_pc' = "loop"
    /\ UNCHANGED <<wr_vars, sg_vars, mt_vars, ec_vars, hs_vars, mc_vars, fx_call, fx_handle, fx_pc,
                   llm_fixes, outcomes_csv>>

\* the loop is over: evaluate_repairs returns
Return ==
    /\ rd_pc = "loop"
    /\ rd_row > Len(llm_fixes)
    /\ rd_pc' = "returned"
    /\ UNCHANGED <<wr_vars, sg_vars, mt_vars, ec_vars, hs_vars, fx_vars, mc_vars, llm_fixes,
                   outcomes_csv, rd_events, rd_row>>

DriverNext ==
    BeginRow \/ RdApplyFix \/ RdValidate \/ RecordOutcome \/ RdRestoreOriginal \/ Return

SpecDriver == DriverInit /\ [][DriverNext]_vars

-----------------------------------------------------------------------------
(* Driver claims *)

\* the rows evaluate_repairs does not skip: the file lies under clones/ and
\* the row has a fix content
Processed(row) ==
    /\ startswith(row.filename, "clones/")
    /\ (row.fixed_file # NaN \/ row.fixed_block_content # NaN)

\* the original content with exactly the repair of one row applied: a
\* whole-file fix replaces it; a block fix replaces the block of the
\* catalogued problem (lines 1-2) or else the row's own lines (2-2)
RepairedBy(row) ==
    IF row.fixed_file # NaN THEN row.fixed_file
    ELSE IF ~problems.is_none /\ row.oid = "oidA"
         THEN row.fixed_block_content \o "\n" \o "c\n"
         ELSE "a\n" \o row.fixed_block_content \o "\n" \o "c\n"

IsCall(i, call) == i \in 1..Len(rd_events) /\ rd_events[i].call = call

SameAttempt(i, j) ==
    /\ rd_events[i].row = rd_events[j].row
    /\ rd_events[i].target = rd_events[j].target

\* apply_fix is followed at once by the validation and then the restore of
\* the same attempt, the restore with the handle apply_fix returned
ApplyValidateRestore ==
    /\ \A a \in 1..Len(rd_events) :
          IsCall(a, "apply_fix") =>
             /\ a + 1 <= Len(rd_events) =>
                   IsCall(a + 1, "validate") /\ SameAttempt(a, a + 1)
             /\ a + 2 <= Len(rd_events) =>
                   /\ IsCall(a + 2, "restore_original")
                   /\ SameAttempt(a, a + 2)
                   /\ rd_events[a + 2].handle = rd_events[a].handle
    /\ \A t \in 1..Len(rd_events) :
          IsCall(t, "restore_original") => IsCall(t - 2, "apply_fix")
    /\ \A r \in 1..Len(llm_fixes) :
          (r < rd_row /\ Processed(llm_fixes[r])) =>
             \E a \in 1..Len(rd_events) :
                 /\ IsCall(a, "apply_fix") /\ rd_events[a].row = r
                 /\ IsCall(a + 2, "restore_original")

\* the validation sees the original content with the repair of its own
\* attempt, and of no other, applied
SeesOneRepair(v) ==
    /\ IsCall(v - 1, "apply_fix")
    /\ SameAttempt(v - 1, v)
    /\ rd_events[v].seen = RepairedBy(llm_fixes[rd_events[v].row])

\* the validation runs before any apply_fix and sees the unmodified module
SeesOriginal(v) ==
    /\ \A a \in 1..v : ~IsCall(a, "apply_fix")
    /\ rd_events[v].seen = RdOriginal

ReturnsWithOriginal ==
    rd_pc = "returned" =>
        fs = [path \in {abspath(_get_original_file_path("clones/p/main.tf"), FxCwd)}
                |-> RdOriginal]

AttemptKey(row) == <<row.oid, row.iteration_id, row.filename>>

AttemptKeys(rows) == [i \in 1..Len(rows) |-> AttemptKey(rows[i])]

\* the fixes rows the loop is through with, as far as the outcomes store goes
RowsRecorded ==
    SubSeq(llm_fixes, 1, IF rd_pc = "restore" THEN rd_row ELSE rd_row - 1)

-----------------------------------------------------------------------------
(* Metrics: MetricsCalculator of metrics_calculator.py *)

\* er.get(flag, False) as a condition
Flag(er, flag) == flag \in DOMAIN er /\ er[flag]

\* a reduction that takes the deprecated is_new_error flag for the
\* introduced count
calculate_error_metrics_by_new_flag(rows, target_file) ==
    [total |-> Len(rows),
     in_file |-> Cardinality({i \in 1..Len(rows) :
                    _get_original_file_path(rows[i].filename) = target_file}),
     in_module |-> Len(rows),
     original |-> Cardinality({i \in 1..Len(rows) : Flag(rows[i], "is_original_error")}),
     new |-> Cardinality({i \in 1..Len(rows) : Flag(rows[i], "is_new_error")}),
     new_to_dataset |->
         Cardinality({i \in 1..Len(rows) : Flag(rows[i], "is_new_to_dataset")}),
     introduced_this_iteration |->
         Cardinality({i \in 1..Len(rows) : Flag(rows[i], "is_new_error")})]

\* calculate_error_metrics, lines 37-58; the paths of the study hold
\* "clones/" at their start only, where replace and the prefix strip agree
calculate_error_metrics(rows, target_file) ==
    [total |-> Len(rows),
     in_file |-> Cardinality({i \in 1..Len(rows) :
                    _get_original_file_path(rows[i].filename) = target_file}),
     in_module |-> Len(rows),
     original |-> Cardinality({i \in 1..Len(rows) : Flag(rows[i], "is_original_error")}),
     new |-> Cardinality({i \in 1..Len(rows) : Flag(rows[i], "is_new_error")}),
     new_to_dataset |->
         Cardinality({i \in 1..Len(rows) : Flag(rows[i], "is_new_to_dataset")}),
     introduced_this_iteration |->
         Cardinality({i \in 1..Len(rows) :
                        Flag(rows[i], "introduced_in_this_iteration")})]

\* create_outcome_row, lines 140-152
create_outcome_row(row, target_file, resolution_metrics, error_counts) ==
    [oid |-> row.oid,
     iteration_id |-> row.iteration_id,
     filename |-> target_file,
     line_is_clean |-> resolution_metrics.line_is_clean,
     line_specific_error_fixed |-> resolution_metrics.specific_error_fixed,
     module_total_errors |-> error_counts.total,
     file_errors |-> error_counts.in_file,
     module_errors |-> error_counts.in_module,
     module_original_errors_remaining |->
         IF "original" \in DOMAIN error_counts THEN error_counts.original ELSE 0,
     module_fix_introduced_errors |->
         IF "introduced_this_iteration" \in DOMAIN error_counts
         THEN error_counts.introduced_this_iteration ELSE 0]

-----------------------------------------------------------------------------
(* Metrics study: one annotated validation result, reduced once *)

MaxMetricRows == 3

\* a history that holds the given signatures, each first seen in "it0"
McHistory(sigs) == [sig \in sigs |-> [first_iteration |-> "it0", iterations |-> <<"it0">>]]

\* the lists categorize_errors can hand over: diagnostics of the pool,
\* annotated against some baseline and some history
McAnnotated ==
    {categorize_rows(ds, "it1", baseline, McHistory(seen)) :
        ds \in SeqsUpTo({DiagPool[d] : d \in 1..Len(DiagPool)}, MaxMetricRows),
        baseline \in SUBSET PoolSigs, seen \in SUBSET PoolSigs}

McTargets == {"clones/c/p/main.tf", "clones/c/p/vars.tf"}

MetricsInit ==
    /\ SgIdle
    /\ MtIdle
    /\ EcIdle
    /\ HsIdle
    /\ FxIdle
    /\ RdIdle
    /\ WrIdle
    /\ mc_errors \in McAnnotated
    /\ mc_counts = [k \in {} |-> 0]
    /\ mc_outcome = [k \in {} |-> 0]

\* calculate_error_metrics, then create_outcome_row on its result
CalculateMetrics ==
    /\ DOMAIN mc_counts = {}
    /\ \E target_file \in McTargets :
          /\ mc_counts' = calculate_error_metrics(mc_errors, target_file)
          /\ mc_outcome' =
                create_outcome_row([oid |-> "oidA", iteration_id |-> "it1"], target_file,
                                   [line_is_clean |-> None, specific_error_fixed |-> None],
                                   mc_counts')
    /\ UNCHANGED <<wr_vars, sg_vars, mt_vars, ec_vars, hs_vars, fx_vars, rd_vars, mc_errors>>

MetricsNext == CalculateMetrics

SpecMetrics == MetricsInit /\ [][MetricsNext]_vars

\* the number of rows of a list that carry an annotation flag
RECURSIVE Annotated(_, _)
Annotated(rows, flag) ==
    IF rows = <<>> THEN 0
    ELSE (IF Head(rows)[flag] THEN 1 ELSE 0) + Annotated(Tail(rows), flag)

Reduced == DOMAIN mc_counts # {}

\* C20: total = module count = number of diagnostics; the ghost count is the
\* number annotated baseline; the introduced count of the outcome row is the
\* number annotated introduced-by-this-iteration; ghost + introduced <= total;
\* the reduction leaves the diagnostics and their annotations as they were.
C20_PureCounts ==
    /\ [](Reduced =>
            /\ mc_counts.total = Len(mc_errors)
            /\ mc_counts.in_module = Len(mc_errors)
            /\ mc_outcome.module_total_errors = Len(mc_errors)
            /\ mc_outcome.module_errors = Len(mc_errors)
            /\ mc_counts.original = Annotated(mc_errors, "is_original_error")
            /\ mc_outcome.module_original_errors_remaining =
                   Annotated(mc_errors, "is_original_error")
            /\ mc_outcome.module_fix_introduced_errors =
                   Annotated(mc_errors, "introduced_in_this_iteration")
            /\ mc_outcome.module_original_errors_remaining
                   + mc_outcome.module_fix_introduced_errors <= Len(mc_errors))
    /\ [][CalculateMetrics => mc_errors' = mc_errors]_vars

\* a reduced list with a baseline row, a row seen in another attempt and a
\* row introduced by this one
C20_Witness ==
    /\ Reduced
    /\ Len(mc_errors) = 3
    /\ mc_counts.original = 1
    /\ mc_counts.introduced_this_iteration = 1
    /\ mc_counts.new = 2

-----------------------------------------------------------------------------
(* Writer: DiagnosticsWriter of terraform_validation/writer.py.  A dict is  *)
(* the sequence of its <<key, value>> pairs in insertion order; the store   *)
(* file is the sequence of its CSV lines, each the sequence of its fields.  *)

COLUMNS ==
    <<"project_name", "working_directory", "oid", "original_problem_oid",
      "iteration_id", "severity", "summary", "detail", "filename", "line_start",
      "col_start", "line_end", "col_end", "file_content", "block_type",
      "block_identifiers", "impacted_block_start_line", "impacted_block_end_line",
      "impacted_block_content", "is_original_error", "is_new_error",
      "is_new_to_dataset", "introduced_in_this_iteration", "exists_in_iterations",
      "first_seen_in">>

HasKey(d, key) == \E i \in 1..Len(d) : d[i][1] = key

\* d[key]
Item(d, key) == d[CHOOSE i \in 1..Len(d) : d[i][1] = key][2]

\* {**d, key: value}: an existing key keeps its place and takes the value
RECURSIVE Update(_, _, _)
Update(d, key, value) ==
    IF d = <<>> THEN <<<<key, value>>>>
    ELSE IF Head(d)[1] = key THEN <<<<key, value>>>> \o Tail(d)
    ELSE <<Head(d)>> \o Update(Tail(d), key, value)

\* {**a, **b}
RECURSIVE Merge(_, _)
Merge(a, b) ==
    IF b = <<>> THEN a ELSE Merge(Update(a, Head(b)[1], Head(b)[2]), Tail(b))

\* compute_oid: the hash of filename|line_start|line_end, kept symbolic
compute_oid(r) ==
    "sha1(" \o Item(r, "filename") \o "|" \o Item(r, "line_start") \o "|"
    \o Item(r, "line_end") \o ")"

\* write_rows, lines 53-60
wr_enriched_row(r, iteration_id, original_problem_oid) ==
    Merge(<<<<"oid", compute_oid(r)>>,
            <<"original_problem_oid", original_problem_oid>>,
            <<"iteration_id", iteration_id>>>>, r)

\* to_csv of one cell: None and NaN are written as the empty field
Field(v) == IF v = None \/ v = NaN THEN "" ELSE v

\* a frame built without columns=: the fields in the order of the dict
frame_line_in_dict_order(d) == [i \in 1..Len(d) |-> Field(d[i][2])]

\* pd.DataFrame(enriched_rows, columns=COLUMNS), one row as a CSV line
frame_line(d) ==
    [i \in 1..Len(COLUMNS) |->
        IF HasKey(d, COLUMNS[i]) THEN Field(Item(d, COLUMNS[i])) ELSE ""]

\* a test that takes every existing file for a store with a header
file_empty_by_existence(file) == ~file.exists

\* lines 65-66
file_empty(file) == ~file.exists \/ file.lines = <<>>

\* write_rows: the store it leaves
write_rows(file, rows, iteration_id, original_problem_oid) ==
    IF rows = <<>> THEN file
    ELSE [exists |-> TRUE,
          lines |-> file.lines
                    \o (IF file_empty(file) THEN <<COLUMNS>> ELSE <<>>)
                    \o [i \in 1..Len(rows) |->
                          frame_line(wr_enriched_row(rows[i], iteration_id,
                                                     original_problem_oid))]]

-----------------------------------------------------------------------------
(* Writer study: one store path, a few write_rows calls *)

MaxWriteRows == 2
MaxStoreLines == 4

\* a row as extract_rows builds it (its "address" is no column of the
\* store); the rows written: that row after categorization, and a row whose
\* keys come in another order and that already carries an oid
WrExtracted ==
    <<<<"project_name", "p">>, <<"working_directory", ".">>, <<"severity", "error">>,
      <<"summary", "S">>, <<"detail", "D">>, <<"address", "">>,
      <<"filename", "c/p/main.tf">>, <<"line_start", "1">>, <<"col_start", "1">>,
      <<"line_end", "2">>, <<"col_end", "2">>, <<"file_content", "a">>,
      <<"block_type", "resource">>, <<"block_identifiers", "resource aws_a x">>,
      <<"impacted_block_start_line", "1">>, <<"impacted_block_end_line", "2">>,
      <<"impacted_block_content", "a">>>>

WrRows ==
    {WrExtracted \o <<<<"is_original_error", "True">>, <<"is_new_error", "False">>,
                      <<"is_new_to_dataset", "False">>,
                      <<"introduced_in_this_iteration", "False">>,
                      <<"first_seen_in", "baseline">>, <<"exists_in_iterations", "">>>>,
     <<<<"line_end", "3">>, <<"line_start", None>>, <<"filename", "">>,
       <<"summary", "T">>, <<"oid", "given">>>>}

\* the store does not exist, is a file of zero bytes, or was created with
\* its header by RepairEvaluator.__init__ (lines 46-48)
WriterInit ==
    /\ SgIdle
    /\ MtIdle
    /\ EcIdle
    /\ HsIdle
    /\ FxIdle
    /\ RdIdle
    /\ McIdle
    /\ wr_file \in {[exists |-> FALSE, lines |-> <<>>],
                    [exists |-> TRUE, lines |-> <<>>],
                    [exists |-> TRUE, lines |-> <<COLUMNS>>]}
    /\ wr_call = <<>>

\* DiagnosticsWriter.write_rows(rows, csv_path, iteration_id, original_problem_oid)
WriteRows ==
    /\ \E rows \in SeqsUpTo(WrRows, MaxWriteRows),
          ids \in {<<None, None>>, <<"it1", "oidA">>} :
          /\ Len(write_rows(wr_file, rows, ids[1], ids[2]).lines) <= MaxStoreLines
          /\ wr_call' = <<rows, ids[1], ids[2]>>
          /\ wr_file' = write_rows(wr_file, rows, ids[1], ids[2])
    /\ UNCHANGED <<sg_vars, mt_vars, ec_vars, hs_vars, fx_vars, rd_vars, mc_vars>>

WriterNext == WriteRows

SpecWriter == WriterInit /\ [][WriterNext]_vars

\* the value a data line must carry in a column, given the row written
Expected(r, column, iteration_id, original_problem_oid) ==
    IF HasKey(r, column) THEN Field(Item(r, column))
    ELSE IF column = "oid" THEN compute_oid(r)
    ELSE IF column = "iteration_id" THEN Field(iteration_id)
    ELSE IF column = "original_problem_oid" THEN Field(original_problem_oid)
    ELSE ""

\* C21: a store that holds anything holds the header as its first line and
\* nowhere else, and every line has one field per column; a call keeps the
\* lines that were there, appends one line per row with each column's value
\* at the column's place, and a call without rows leaves the store as it was.
C21_AppendOnlyFixedSchema ==
    /\ [](/\ wr_file.lines # <<>> => wr_file.lines[1] = COLUMNS
          /\ \A i \in 2..Len(wr_file.lines) : wr_file.lines[i] # COLUMNS
          /\ \A i \in 1..Len(wr_file.lines) : Len(wr_file.lines[i]) = Len(COLUMNS))
    /\ [][WriteRows =>
            LET rows == wr_call'[1]
                old == Len(wr_file.lines)
                data == Len(wr_file.lines') - Len(rows)
            IN  /\ SubSeq(wr_file.lines', 1, old) = wr_file.lines
                /\ rows = <<>> => wr_file' = wr_file
                /\ rows # <<>> =>
                      /\ data \in {old, old + 1}
                      /\ \A k \in 1..Len(rows), c \in 1..Len(COLUMNS) :
                            wr_file.lines'[data + k][c] =
                                Expected(rows[k], COLUMNS[c], wr_call'[2], wr_call'[3])]_vars

\* rows were appended to a store created as a file of zero bytes, and again
\* after that; the later call brought a row whose keys come in another order
C21_Witness ==
    /\ Len(wr_file.lines) = 4
    /\ wr_file.lines[1] = COLUMNS
    /\ Len(wr_call[1]) = 1
    /\ wr_call[1][1][1][1] = "line_end"
    /\ wr_file.lines[4][12] = "3"
    /\ wr_file.lines[4][9] = ""

-----------------------------------------------------------------------------
(* Cache study: lookups of the baseline and of the history, with records    *)
(* appended to the persisted store between them                             *)

CacheFiles == {original_file, "c/p/vars.tf"}

\* the records appended during the study: defect Y, found by a fix of each
\* iteration
CacheRecords ==
    {enriched_row(DiagPool[2], fix[2], fix[1]) :
        fix \in {<<"oidA", "it1">>, <<"oidB", "it2">>}}

CacheInit ==
    /\ SgIdle
    /\ MtIdle
    /\ FxIdle
    /\ RdIdle
    /\ McIdle
    /\ WrIdle
    /\ problems \in {NoProblems, Catalogue}
    /\ output_csv = <<>>
    /\ store_fault = FALSE
    /\ baseline_errors_cache = [f \in {} |-> {}]
    /\ experiment_errors_cache = [key \in {} |-> <<>>]
    /\ attempts = <<>>
    /\ extracted_rows = <<>>
    /\ existing_experiment_errors = [served_from_cache |-> FALSE, errors |-> <<>>]
    /\ hs_query = <<>>
    /\ pc = "idle"

\* one call of get_baseline_errors(original_file)
LookupBaseline ==
    /\ \E file \in CacheFiles :
          baseline_errors_cache' =
              Put(baseline_errors_cache, file, get_baseline_errors(file))
    /\ pc' = "baseline_looked_up"
    /\ UNCHANGED <<wr_vars, sg_vars, mt_vars, fx_vars, rd_vars, mc_vars, problems,
                   output_csv, experiment_errors_cache, attempts, extracted_rows,
                   existing_experiment_errors, hs_vars>>

\* write_rows for an attempt of the run: a record is appended to the store
AppendRecord ==
    /\ Len(output_csv) < MaxStoreRows
    /\ \E record \in CacheRecords : output_csv' = Append(output_csv, record)
    /\ pc' = "appended"
    /\ UNCHANGED <<wr_vars, sg_vars, mt_vars, fx_vars, rd_vars, mc_vars, problems,
                   baseline_errors_cache, experiment_errors_cache, attempts,
                   extracted_rows, existing_experiment_errors, hs_vars>>

CacheNext == Lookup \/ LookupBaseline \/ AppendRecord

SpecCache == CacheInit /\ [][CacheNext]_vars

\* every entry of the two caches is there after the step, with its value
EntriesKept ==
    /\ \A key \in DOMAIN experiment_errors_cache :
          /\ key \in DOMAIN experiment_errors_cache'
          /\ experiment_errors_cache'[key] = experiment_errors_cache[key]
    /\ \A file \in DOMAIN baseline_errors_cache :
          /\ file \in DOMAIN baseline_errors_cache'
          /\ baseline_errors_cache'[file] = baseline_errors_cache[file]

\* C23: no step modifies or removes a cache entry, and a lookup whose key is
\* in the cache returns the entry, that is the result of the first lookup,
\* whatever was appended to the store since.
C23_WriteOnceCaches ==
    /\ [][EntriesKept]_vars
    /\ [](\A file \in DOMAIN baseline_errors_cache :
             get_baseline_errors(file) = baseline_errors_cache[file])
    /\ [](\A current_iteration_id \in HsIterations, original_problem_oid \in HsScopes :
             LET key == cache_key(original_file, current_iteration_id,
                                  original_problem_oid)
             IN  key \in DOMAIN experiment_errors_cache =>
                     get_existing_experiment_errors(original_file, current_iteration_id,
                                                    original_problem_oid)
                        = experiment_errors_cache[key])

\* a history looked up on an empty store is served again, still empty, after
\* a record of another iteration, which a fresh read would report, was appended
C23_Witness ==
    /\ pc = "looked_up"
    /\ existing_experiment_errors.served_from_cache
    /\ DOMAIN existing_experiment_errors.errors = {}
    /\ DOMAIN compute_experiment_errors(original_file, hs_query[1], hs_query[2]) # {}

====
